---- MODULE Spec2Model ----
(***************************************************************************)
(* betterrank: the graph builder (graph.js), the mtime cache (cache.js)    *)
(* and the query preamble of CodeIndex (index.js).                         *)
(*                                                                         *)
(* A graph value is a record                                               *)
(*   order : the node ids in insertion order (graphology iterates nodes in *)
(*           insertion order; forEachNode reads it),                       *)
(*   attrs : node id -> attribute record,                                  *)
(*   edges : a bag of <<type, source, target>>: the store is a             *)
(*           MultiDirectedGraph, so addEdge never merges two edges.        *)
(* A file node has id <<file>>, a symbol node `${file}::${name}` has id    *)
(* <<file, name>>.                                                         *)
(***************************************************************************)
EXTENDS Naturals, Integers, Sequences, FiniteSets, Bags, TLC

VARIABLES
  graph,    \* the graph under construction (CodeIndexCache.graph in a session)
  prev,     \* the graph as the last call found it
  inputs,   \* the array of FileSymbols the graph stands for (graph API runs)
  lastOp,   \* the last call, its arguments and what it returned
  disk,     \* the source tree: file -> [present, mtime, fs]
  clock,    \* the file system's clock, the source of mtimes
  doc,      \* the persisted cache document
  cache,    \* CodeIndexCache: [hasGraph, mtimes, initialized]
  ranker,   \* CodeIndex: [rankedCache, fileScoresCache]
  sync      \* [unseen, strict]: tree changes not yet seen by an ensure();
            \* with overlapping requests, [calls, started]: the calls in flight

vars == <<graph, prev, inputs, lastOp, disk, clock, doc, cache, ranker, sync>>

sessionVars == <<disk, clock, doc, cache, ranker, sync>>

\* ---------------------------------------------------------------- bounds
FileOrder == <<"a", "b", "c">>
Files == {FileOrder[i] : i \in DOMAIN FileOrder}
\* the walk's order over the paths of the wider trees
WalkOrder == FileOrder \o <<"d">>
Names == {"f"}
\* every name a source file of the model defines or references
AllNames == Names \cup {"g"}
MaxDefs == 2
MaxRefs == 2
MaxInput == 2
MaxAdded == 1
MaxOps == 1
MaxWrites == 2
MaxTargets == 6

AMBIGUITY_CAP == 5

\* ------------------------------------------------------------ graphology
FileId(file) == <<file>>
SymbolKey(file, name) == <<file, name>>

FileAttrs(definitions) ==
  [type |-> "file", name |-> "", file |-> "", lineStart |-> 0,
   symbolCount |-> Len(definitions)]

SymbolAttrs(file, def) ==
  [type |-> "symbol", name |-> def.name, file |-> file,
   lineStart |-> def.lineStart, symbolCount |-> 0]

EmptyGraph == [order |-> <<>>, attrs |-> <<>>, edges |-> EmptyBag]

hasNode(g, n) == n \in DOMAIN g.attrs

\* graph.getNodeAttribute(n, 'file'): throws on a missing node
getFile(g, n) == g.attrs[n].file

mergeNode(g, n, a) ==
  IF hasNode(g, n)
    THEN [g EXCEPT !.attrs = [m \in DOMAIN g.attrs |-> IF m = n THEN a ELSE g.attrs[m]]]
    ELSE [g EXCEPT !.order = Append(g.order, n),
                   !.attrs = [m \in DOMAIN g.attrs \cup {n} |->
                                 IF m = n THEN a ELSE g.attrs[m]]]

addEdge(g, type, source, target) ==
  [g EXCEPT !.edges = @ (+) SetToBag({<<type, source, target>>})]

dropNode(g, n) ==
  LET keep == {e \in DOMAIN g.edges : e[2] # n /\ e[3] # n}
  IN [order |-> SelectSeq(g.order, LAMBDA m : m # n),
      attrs |-> [m \in DOMAIN g.attrs \ {n} |-> g.attrs[m]],
      edges |-> [e \in keep |-> g.edges[e]]]

\* ------------------------------------------------------------- graph.js
\* the cap applied one candidate early
disambiguateTargetsCapInclusive(targets, sourceFile, g) ==
  IF Len(targets) = 1 THEN targets
  ELSE LET sameFile == SelectSeq(targets,
                          LAMBDA t : hasNode(g, t) /\ getFile(g, t) = sourceFile)
       IN IF Len(sameFile) > 0 THEN sameFile
          ELSE IF Len(targets) >= AMBIGUITY_CAP THEN <<>>
          ELSE targets

disambiguateTargets(targets, sourceFile, g) ==
  IF Len(targets) = 1 THEN targets
  ELSE LET sameFile == SelectSeq(targets,
                          LAMBDA t : hasNode(g, t) /\ getFile(g, t) = sourceFile)
       IN IF Len(sameFile) > 0 THEN sameFile
          ELSE IF Len(targets) > AMBIGUITY_CAP THEN <<>>
          ELSE targets

\* buildGraph, lines 54-66: one symbol node and one DEFINES edge per definition
RECURSIVE mergeDefinitions(_, _, _)
mergeDefinitions(g, file, definitions) ==
  IF definitions = <<>> THEN g
  ELSE LET def == Head(definitions)
           symbolKey == SymbolKey(file, def.name)
           g1 == mergeNode(g, symbolKey, SymbolAttrs(file, def))
           g2 == addEdge(g1, "DEFINES", FileId(file), symbolKey)
       IN mergeDefinitions(g2, file, Tail(definitions))

\* buildGraph, lines 51-67
RECURSIVE mergeFiles(_, _)
mergeFiles(g, allSymbols) ==
  IF allSymbols = <<>> THEN g
  ELSE LET fs == Head(allSymbols)
           g1 == mergeNode(g, FileId(fs.file), FileAttrs(fs.definitions))
       IN mergeFiles(mergeDefinitions(g1, fs.file, fs.definitions), Tail(allSymbols))

\* buildGraph, lines 70-77: the keys pushed for one name, in input order
RECURSIVE defKeys(_, _, _)
defKeys(file, definitions, name) ==
  IF definitions = <<>> THEN <<>>
  ELSE (IF Head(definitions).name = name THEN <<SymbolKey(file, name)>> ELSE <<>>)
       \o defKeys(file, Tail(definitions), name)

RECURSIVE indexKeys(_, _)
indexKeys(allSymbols, name) ==
  IF allSymbols = <<>> THEN <<>>
  ELSE defKeys(Head(allSymbols).file, Head(allSymbols).definitions, name)
       \o indexKeys(Tail(allSymbols), name)

\* an absent map entry is the empty list (the arrays of the map are never empty)
buildDefIndex(allSymbols) == [n \in AllNames |-> indexKeys(allSymbols, n)]

\* buildGraph, lines 91-107; st = [g, defIndex, addedRefs, addedImports]
RECURSIVE wireTargets(_, _, _)
wireTargets(st, file, resolvedTargets) ==
  IF resolvedTargets = <<>> THEN st
  ELSE LET target == Head(resolvedTargets)
           targetFile == getFile(st.g, target)
           refKey == <<file, target>>
           st1 == IF refKey \notin st.addedRefs
                    THEN [st EXCEPT !.addedRefs = @ \cup {refKey},
                                    !.g = addEdge(@, "REFERENCES", FileId(file), target)]
                    ELSE st
           impKey == <<file, targetFile>>
           st2 == IF targetFile # file /\ impKey \notin st1.addedImports
                    THEN [st1 EXCEPT !.addedImports = @ \cup {impKey},
                                     !.g = addEdge(@, "IMPORTS", FileId(file),
                                                   FileId(targetFile))]
                    ELSE st1
       IN wireTargets(st2, file, Tail(resolvedTargets))

\* buildGraph, lines 84-108
RECURSIVE wireReferences(_, _, _)
wireReferences(st, file, references) ==
  IF references = <<>> THEN st
  ELSE LET targets == st.defIndex[Head(references)]
           st1 == IF targets = <<>> THEN st
                  ELSE wireTargets(st, file, disambiguateTargets(targets, file, st.g))
       IN wireReferences(st1, file, Tail(references))

\* buildGraph, lines 83-109
RECURSIVE wireFiles(_, _)
wireFiles(st, allSymbols) ==
  IF allSymbols = <<>> THEN st
  ELSE wireFiles(wireReferences(st, Head(allSymbols).file, Head(allSymbols).references),
                 Tail(allSymbols))

buildGraph(allSymbols) ==
  LET g1 == mergeFiles(EmptyGraph, allSymbols)
      st == [g |-> g1, defIndex |-> buildDefIndex(allSymbols),
             addedRefs |-> {}, addedImports |-> {}]
  IN wireFiles(st, allSymbols).g

\* removeFileNodes, lines 192-194
RECURSIVE dropNodes(_, _)
dropNodes(g, toRemove) ==
  IF toRemove = <<>> THEN g ELSE dropNodes(dropNode(g, Head(toRemove)), Tail(toRemove))

\* only the nodes whose file attribute is the path: the file node stays
removeFileNodesSymbolsOnly(g, filePath) ==
  dropNodes(g, SelectSeq(g.order, LAMBDA n : g.attrs[n].file = filePath))

\* only the file node: its symbol nodes stay
removeFileNodesFileOnly(g, filePath) ==
  dropNodes(g, SelectSeq(g.order, LAMBDA n : n = FileId(filePath)))

removeFileNodes(g, filePath) ==
  LET toRemove == SelectSeq(g.order,
                    LAMBDA n : n = FileId(filePath) \/ g.attrs[n].file = filePath)
  IN dropNodes(g, toRemove)

\* updateGraphFiles, lines 119-121
RECURSIVE removeFiles(_, _)
removeFiles(g, removedFiles) ==
  IF removedFiles = <<>> THEN g
  ELSE removeFiles(removeFileNodes(g, Head(removedFiles)), Tail(removedFiles))

\* updateGraphFiles, lines 125-133: the index over the nodes left in the graph
graphDefIndex(g) ==
  [n \in AllNames |-> SelectSeq(g.order,
                     LAMBDA m : g.attrs[m].type = "symbol" /\ g.attrs[m].name = n)]

\* updateGraphFiles, lines 141-156
RECURSIVE updateDefinitions(_, _, _)
updateDefinitions(st, file, definitions) ==
  IF definitions = <<>> THEN st
  ELSE LET def == Head(definitions)
           symbolKey == SymbolKey(file, def.name)
           g1 == mergeNode(st.g, symbolKey, SymbolAttrs(file, def))
           g2 == addEdge(g1, "DEFINES", FileId(file), symbolKey)
           st1 == [st EXCEPT !.g = g2,
                             !.defIndex[def.name] = Append(@, symbolKey)]
       IN updateDefinitions(st1, file, Tail(definitions))

\* updateGraphFiles, lines 164-180
RECURSIVE updateWireTargets(_, _, _)
updateWireTargets(st, file, resolvedTargets) ==
  IF resolvedTargets = <<>> THEN st
  ELSE LET target == Head(resolvedTargets)
           targetFile == getFile(st.g, target)
           refKey == <<file, target>>
           st1 == IF refKey \notin st.addedRefs
                    THEN [st EXCEPT !.addedRefs = @ \cup {refKey},
                                    !.g = addEdge(@, "REFERENCES", FileId(file), target)]
                    ELSE st
           impKey == <<file, targetFile>>
           st2 == IF targetFile # file /\ impKey \notin st1.addedImports
                    THEN [st1 EXCEPT !.addedImports = @ \cup {impKey},
                                     !.g = addEdge(@, "IMPORTS", FileId(file),
                                                   FileId(targetFile))]
                    ELSE st1
       IN updateWireTargets(st2, file, Tail(resolvedTargets))

\* updateGraphFiles, lines 158-181
RECURSIVE updateReferences(_, _, _)
updateReferences(st, file, references) ==
  IF references = <<>> THEN st
  ELSE LET targets == st.defIndex[Head(references)]
           st1 == IF targets = <<>> THEN st
                  ELSE updateWireTargets(st, file,
                                         disambiguateTargets(targets, file, st.g))
       IN updateReferences(st1, file, Tail(references))

\* updateGraphFiles, lines 138-182
RECURSIVE updateFiles(_, _)
updateFiles(st, newSymbols) ==
  IF newSymbols = <<>> THEN st
  ELSE LET fs == Head(newSymbols)
           st1 == [st EXCEPT !.g = mergeNode(@, FileId(fs.file), FileAttrs(fs.definitions))]
           st2 == updateDefinitions(st1, fs.file, fs.definitions)
       IN updateFiles(updateReferences(st2, fs.file, fs.references), Tail(newSymbols))

updateGraphFiles(g, removedFiles, newSymbols) ==
  LET g1 == removeFiles(g, removedFiles)
      st == [g |-> g1, defIndex |-> graphDefIndex(g1),
             addedRefs |-> {}, addedImports |-> {}]
  IN updateFiles(st, newSymbols).g

\* ------------------------------------------------------ inputs (parser.js)
\* parseFile pushes one definition per query match and one reference per
\* capture, in source order, without deduplication.
NameSeqs(n) == UNION {[1..k -> Names] : k \in 0..n}

Definitions(ns) == [i \in 1..Len(ns) |-> [name |-> ns[i], lineStart |-> i]]

FileSymbolsOf(file) ==
  {[file |-> file, definitions |-> Definitions(d), references |-> r] :
     d \in NameSeqs(MaxDefs), r \in NameSeqs(MaxRefs)}

FileSymbols == UNION {FileSymbolsOf(file) : file \in Files}

SeqsUpTo(S, n) == UNION {[1..k -> S] : k \in 0..n}

FileLists == {<<>>} \cup {<<p>> : p \in Files}

\* same nodes, node attributes and typed edges (iteration order apart)
SameGraph(g1, g2) == g1.attrs = g2.attrs /\ g1.edges = g2.edges

\* ------------------------------------------------- graph.js, persistence
\* graph.export(): the nodes in order with their attributes, the edges with
\* source, target and attributes (a bag: edge keys and edge order are left out)
exportGraph(g) ==
  [nodes |-> [i \in 1..Len(g.order) |->
                [key |-> g.order[i], attributes |-> g.attrs[g.order[i]]]],
   edges |-> [x \in {[source |-> e[2], target |-> e[3], attributes |-> [type |-> e[1]]] :
                       e \in DOMAIN g.edges} |->
                g.edges[<<x.attributes.type, x.source, x.target>>]]]

\* parallel edges of one type folded into one
importGraphSimple(ser) ==
  LET keys == {ser.nodes[i].key : i \in 1..Len(ser.nodes)}
      node(k) == CHOOSE i \in 1..Len(ser.nodes) : ser.nodes[i].key = k
  IN [order |-> [i \in 1..Len(ser.nodes) |-> ser.nodes[i].key],
      attrs |-> [k \in keys |-> ser.nodes[node(k)].attributes],
      edges |-> [e \in {<<x.attributes.type, x.source, x.target>> : x \in DOMAIN ser.edges}
                   |-> 1]]

\* graph.import() into a new graph
importGraph(ser) ==
  LET keys == {ser.nodes[i].key : i \in 1..Len(ser.nodes)}
      node(k) == CHOOSE i \in 1..Len(ser.nodes) : ser.nodes[i].key = k
      edge(e) == [source |-> e[2], target |-> e[3], attributes |-> [type |-> e[1]]]
  IN [order |-> [i \in 1..Len(ser.nodes) |-> ser.nodes[i].key],
      attrs |-> [k \in keys |-> ser.nodes[node(k)].attributes],
      edges |-> [e \in {<<x.attributes.type, x.source, x.target>> : x \in DOMAIN ser.edges}
                   |-> ser.edges[edge(e)]]]

\* the persisted document: present when the file exists, valid when
\* JSON.parse, graph.import and Object.entries accept what it holds
NoDoc == [present |-> FALSE, valid |-> TRUE, version |-> 0, graph |-> exportGraph(EmptyGraph),
          mtimes |-> <<>>]

saveGraph(g, mtimeMap) ==
  [present |-> TRUE, valid |-> TRUE, version |-> 2, graph |-> exportGraph(g),
   mtimes |-> mtimeMap]

\* the version not looked at
loadGraphAnyVersion(d) ==
  IF ~d.present \/ ~d.valid THEN <<>>
  ELSE <<[graph |-> importGraph(d.graph), mtimes |-> d.mtimes]>>

\* loadGraph: <<>> for null, <<[graph, mtimes]>> otherwise
loadGraph(d) ==
  IF ~d.present \/ ~d.valid THEN <<>>
  ELSE IF d.version # 1 /\ d.version # 2 THEN <<>>
  ELSE <<[graph |-> importGraph(d.graph), mtimes |-> d.mtimes]>>

\* rankedSymbols: the PageRank list is a function of the graph and the focus
\* list; it is held as that pair, not as numbers
rankedSymbols(g, focusFiles) ==
  [nodes |-> g.order, attrs |-> g.attrs, edges |-> g.edges, focus |-> focusFiles]

\* -------------------------------------------------------------- cache.js
NoFile(p) == [present |-> FALSE, mtime |-> 0,
              fs |-> [file |-> p, definitions |-> <<>>, references |-> <<>>]]

\* new CodeIndexCache(): graph = null, mtimes = new Map(), initialized = false
NewCache == [hasGraph |-> FALSE, mtimes |-> <<>>, initialized |-> FALSE]

\* glob(): the files of the tree, in the walk's order
globFiles(dk) == SelectSeq(WalkOrder, LAMBDA p : p \in DOMAIN dk /\ dk[p].present)

\* an equal mtime taken for a newer one
isChangedOrEqual(mt, dk, p) == p \notin DOMAIN mt \/ mt[p] <= dk[p].mtime

isChanged(mt, dk, p) == p \notin DOMAIN mt \/ mt[p] < dk[p].mtime

\* _getChangedFiles: [changed, deleted, mtimes, totalScanned]
getChangedFiles(mt, dk) ==
  LET files == globFiles(dk)
      changed == SelectSeq(files, LAMBDA p : isChanged(mt, dk, p))
      currentFiles == {files[i] : i \in 1..Len(files)}
      changedSet == {changed[i] : i \in 1..Len(changed)}
      mt1 == [p \in DOMAIN mt \cup changedSet |->
                IF p \in changedSet THEN dk[p].mtime ELSE mt[p]]
      deleted == SelectSeq(WalkOrder, LAMBDA p : p \in DOMAIN mt1 /\ p \notin currentFiles)
  IN [changed |-> changed, deleted |-> deleted,
      mtimes |-> [p \in DOMAIN mt1 \cap currentFiles |-> mt1[p]],
      totalScanned |-> Len(files)]

\* the content of a file that readFile or parseFile throws on
Unparseable(p) == [file |-> p, throws |-> TRUE]

parses(fs) == "throws" \notin DOMAIN fs

\* the first failure ends the batch
RECURSIVE parseFilesAbort(_, _)
parseFilesAbort(dk, relPaths) ==
  IF relPaths = <<>> THEN <<>>
  ELSE IF parses(dk[Head(relPaths)].fs)
         THEN <<dk[Head(relPaths)].fs>> \o parseFilesAbort(dk, Tail(relPaths))
         ELSE <<>>

\* _parseFiles: readFile and parseFile of each path, one record per file
\* that parses; a file that throws is skipped
RECURSIVE parseFiles(_, _)
parseFiles(dk, relPaths) ==
  IF relPaths = <<>> THEN <<>>
  ELSE (IF parses(dk[Head(relPaths)].fs) THEN <<dk[Head(relPaths)].fs>> ELSE <<>>)
         \o parseFiles(dk, Tail(relPaths))

\* ensure() on the cache c with graph g, the document d and the tree dk:
\* the cache, graph and document it leaves, and what it saw and returned
ensure(c, g, d, dk) ==
  LET cached == IF c.initialized THEN <<>> ELSE loadGraph(d)
      c1 == IF cached # <<>>
              THEN [hasGraph |-> TRUE, mtimes |-> cached[1].mtimes, initialized |-> TRUE]
              ELSE [c EXCEPT !.initialized = TRUE]
      g1 == IF cached # <<>> THEN cached[1].graph ELSE g
      r == getChangedFiles(c1.mtimes, dk)
      newSymbols == parseFiles(dk, r.changed)
  IN IF r.changed = <<>> /\ r.deleted = <<>>
       THEN [cache |-> [c1 EXCEPT !.hasGraph = TRUE],
             graph |-> IF c1.hasGraph THEN g1 ELSE EmptyGraph,
             doc |-> d, stored |-> c1.mtimes, changed |-> <<>>, deleted |-> <<>>,
             parsed |-> <<>>,
             result |-> [changed |-> 0, deleted |-> 0, totalScanned |-> r.totalScanned]]
       ELSE LET g2 == IF ~c1.hasGraph THEN buildGraph(newSymbols)
                      ELSE updateGraphFiles(g1, r.deleted \o r.changed, newSymbols)
            IN [cache |-> [hasGraph |-> TRUE, mtimes |-> r.mtimes, initialized |-> TRUE],
                graph |-> g2,
                doc |-> saveGraph(g2, r.mtimes),
                stored |-> c1.mtimes, changed |-> r.changed, deleted |-> r.deleted,
                parsed |-> r.changed,
                result |-> [changed |-> Len(r.changed), deleted |-> Len(r.deleted),
                            totalScanned |-> r.totalScanned]]

\* reindex(): drop the state, unlink the document, ensure()
reindex(dk) == ensure(NewCache, EmptyGraph, NoDoc, dk)

\* -------------------------------------------------------------- index.js
\* new CodeIndex(): both caches null (<<>>); a cached value v is <<v>>
NewRanker == [rankedCache |-> <<>>, fileScoresCache |-> <<>>]

\* deletions not taken for a change
invalidateOnChangedOnly(rk, result) ==
  IF result.changed > 0 THEN NewRanker ELSE rk

\* _ensureReady, lines 178-181
invalidate(rk, result) ==
  IF result.changed > 0 \/ result.deleted > 0 THEN NewRanker ELSE rk

\* _getRanked(): [value, ranker]
getRanked(rk, g, hasGraph) ==
  IF rk.rankedCache # <<>> THEN [value |-> rk.rankedCache[1], ranker |-> rk]
  ELSE IF ~hasGraph \/ Len(g.order) = 0
    THEN [value |-> rankedSymbols(EmptyGraph, <<>>), ranker |-> rk]
  ELSE [value |-> rankedSymbols(g, <<>>),
        ranker |-> [rk EXCEPT !.rankedCache = <<rankedSymbols(g, <<>>)>>]]

\* the per-file sums of _getFileScores, lines 209-216: they read the ranking
\* and the file attribute of its symbols in the graph
fileScores(ranked, g) == [ranked |-> ranked, attrs |-> g.attrs]

\* _getFileScores(): [value, ranker]
getFileScores(rk, g, hasGraph) ==
  IF rk.fileScoresCache # <<>> THEN [value |-> rk.fileScoresCache[1], ranker |-> rk]
  ELSE LET r == getRanked(rk, g, hasGraph)
           scores == fileScores(r.value, g)
       IN [value |-> scores, ranker |-> [r.ranker EXCEPT !.fileScoresCache = <<scores>>]]

\* --------------------------------------------------- graph API behaviours
\* The callers of graph.js: buildGraph on an array of records, then
\* updateGraphFiles on its result.  prev is the graph as the last call found
\* it.  inputs is the array the graph stands for:
\* the array given to buildGraph, with the records of removed files taken out
\* and each added record put in its file's place (or appended).
filesOf(X) == {X[i].file : i \in 1..Len(X)}

replaceRecords(X, R, N) ==
  LET gone == {R[i] : i \in 1..Len(R)}
      new(p) == CHOOSE i \in 1..Len(N) : N[i].file = p /\ \A j \in i+1..Len(N) : N[j].file # p
      kept == SelectSeq(X, LAMBDA fs : fs.file \notin gone \/ fs.file \in filesOf(N))
      inPlace == [i \in 1..Len(kept) |->
                    IF kept[i].file \in gone THEN N[new(kept[i].file)] ELSE kept[i]]
  IN inPlace \o SelectSeq(N, LAMBDA fs : fs.file \notin filesOf(X) \/ fs.file \notin gone)

NoSession ==
  /\ disk = [p \in Files |-> NoFile(p)]
  /\ clock = 0
  /\ doc = NoDoc
  /\ cache = NewCache
  /\ ranker = NewRanker
  /\ sync = [unseen |-> 0, strict |-> TRUE]

Init ==
  /\ graph = EmptyGraph
  /\ prev = EmptyGraph
  /\ inputs = <<>>
  /\ lastOp = [kind |-> "init", removed |-> <<>>, added |-> <<>>, n |-> 0]
  /\ NoSession

Build(X) ==
  /\ lastOp.kind = "init"
  /\ graph' = buildGraph(X)
  /\ prev' = EmptyGraph
  /\ inputs' = X
  /\ lastOp' = [kind |-> "build", removed |-> <<>>, added |-> X, n |-> 0]
  /\ UNCHANGED sessionVars

Update(R, N) ==
  /\ lastOp.kind # "init"
  /\ lastOp.n < MaxOps
  /\ graph' = updateGraphFiles(graph, R, N)
  /\ prev' = graph
  /\ inputs' = replaceRecords(inputs, R, N)
  /\ lastOp' = [kind |-> "update", removed |-> R, added |-> N, n |-> lastOp.n + 1]
  /\ UNCHANGED sessionVars

Next ==
  \/ \E X \in SeqsUpTo(FileSymbols, MaxInput) : Build(X)
  \/ \E R \in FileLists, N \in SeqsUpTo(FileSymbols, MaxAdded) : Update(R, N)

Spec == Init /\ [][Next]_vars

\* ------------------------------------------------------------ the claims
SymbolNodes(g) == {n \in DOMAIN g.attrs : g.attrs[n].type = "symbol"}

Edges(g, type) == {e \in DOMAIN g.edges : e[1] = type}

distinctFiles(X) == \A i, j \in 1..Len(X) : X[i].file = X[j].file => i = j

\* the call updateGraphFiles(G, removed=[p], added=[FS_p]) on G = buildGraph(X), p in X
ReparseOf(p) ==
  /\ lastOp.kind = "update" /\ lastOp.n = 1
  /\ lastOp.removed = <<p>>
  /\ Len(lastOp.added) = 1 /\ lastOp.added[1].file = p
  /\ hasNode(prev, FileId(p))
  /\ distinctFiles(inputs)

\* C1: updating a cold-built graph with removed=[p], added=[FS_p] yields the
\* graph a cold build over X with p's record replaced by FS_p yields,
\* the edges from unchanged files to p and p's symbols included.
C1_UpdateEqualsColdBuild ==
  \A p \in Files : ReparseOf(p) => SameGraph(graph, buildGraph(inputs))

\* C3: every symbol node has exactly one incoming DEFINES edge, and it comes
\* from the file node whose id is the symbol's file attribute.
C3_OneDefinesEdge ==
  \A s \in SymbolNodes(graph) :
    LET into == {e \in Edges(graph, "DEFINES") : e[3] = s}
    IN /\ into = {<<"DEFINES", FileId(graph.attrs[s].file), s>>}
       /\ \A e \in into : graph.edges[e] = 1

\* C4: at most one edge of each kind between each ordered pair of nodes.
C4_EdgeMultiplicity == \A e \in DOMAIN graph.edges : graph.edges[e] <= 1

\* C5: IMPORTS(F1, F2) exists iff F1 # F2 and some REFERENCES edge runs from
\* F1 to a symbol whose file is F2; no IMPORTS edge is a self-loop.
C5_ImportsIffReferences ==
  /\ \A e \in Edges(graph, "IMPORTS") :
       e[2] # e[3] /\ e[2] \in {FileId(p) : p \in Files} /\ e[3] \in {FileId(p) : p \in Files}
  /\ \A F1, F2 \in Files :
       (<<"IMPORTS", FileId(F1), FileId(F2)>> \in DOMAIN graph.edges)
         <=> (F1 # F2 /\ \E e \in Edges(graph, "REFERENCES") :
                            e[2] = FileId(F1) /\ graph.attrs[e[3]].file = F2)

C5_Witness ==
  /\ lastOp.kind = "update"
  /\ \E e \in Edges(graph, "IMPORTS") : TRUE
  /\ \E e \in Edges(graph, "REFERENCES") : FileId(graph.attrs[e[3]].file) = e[2]
  /\ \E e \in Edges(prev, "IMPORTS") : e \notin DOMAIN graph.edges

\* nodes and edge targets that belong to file p
OfFile(n, p) == n = FileId(p) \/ (Len(n) = 2 /\ n[1] = p)

\* C6: after updateGraphFiles(graph, [p], []) no node has id p or file p, and
\* no REFERENCES or IMPORTS edge that pointed at p or at a symbol of p is left.
C6_RemovedFileLeavesNothing ==
  \A p \in Files :
    (lastOp.kind = "update" /\ lastOp.removed = <<p>> /\ lastOp.added = <<>>) =>
      /\ \A n \in DOMAIN graph.attrs : n # FileId(p) /\ graph.attrs[n].file # p
      /\ \A i \in 1..Len(graph.order) : ~OfFile(graph.order[i], p)
      /\ \A e \in DOMAIN graph.edges : ~OfFile(e[3], p) /\ ~OfFile(e[2], p)

C6_Witness ==
  \E p \in Files :
    /\ lastOp.kind = "update" /\ lastOp.removed = <<p>> /\ lastOp.added = <<>>
    /\ \E e \in Edges(prev, "REFERENCES") : OfFile(e[3], p) /\ ~OfFile(e[2], p)
    /\ \E e \in Edges(prev, "IMPORTS") : OfFile(e[3], p)
    /\ \E n \in DOMAIN graph.attrs : TRUE

\* C8: building from X followed by X yields the graph built from X: the same
\* nodes and attributes and the same number of edges of each kind per pair.
C8_BuildTwiceIsBuildOnce ==
  (lastOp.kind = "build" /\ Len(lastOp.added) = 2 /\ lastOp.added[1] = lastOp.added[2])
    => SameGraph(graph, buildGraph(<<lastOp.added[1]>>))

\* ------------------------------------------------------ session behaviours
\* One CodeIndex over one project root: the tree changes, queries run one
\* after another (each is _ensureReady() and then its reads of the ranking),
\* reindex() forces a rebuild, and a new process starts a new CodeIndex over
\* the same persisted document.
InitSession ==
  /\ graph = EmptyGraph
  /\ prev = EmptyGraph
  /\ inputs = <<>>
  /\ lastOp = [kind |-> "new"]
  /\ NoSession

changeTree(dk) ==
  /\ clock < MaxWrites
  /\ disk' = dk
  /\ clock' = clock + 1
  /\ sync' = [unseen |-> sync.unseen + 1,
              strict |-> sync.strict /\ (sync.unseen = 0 \/ (~cache.hasGraph /\ ~doc.present))]
  /\ lastOp' = [kind |-> "write"]
  /\ UNCHANGED <<graph, prev, inputs, doc, cache, ranker>>

WriteFile(p, fs) ==
  changeTree([disk EXCEPT ![p] = [present |-> TRUE, mtime |-> clock + 1, fs |-> fs]])

DeleteFile(p) ==
  /\ disk[p].present
  /\ changeTree([disk EXCEPT ![p] = NoFile(p)])

Query(reads) ==
  \E e \in {ensure(cache, graph, doc, disk)} :
  LET rk == invalidate(ranker, e.result)
      r == IF reads = "ranked" THEN getRanked(rk, e.graph, e.cache.hasGraph)
           ELSE IF reads = "fileScores" THEN getFileScores(rk, e.graph, e.cache.hasGraph)
           ELSE [value |-> <<>>, ranker |-> rk]
  IN /\ graph' = e.graph
     /\ prev' = graph
     /\ cache' = e.cache
     /\ doc' = e.doc
     /\ ranker' = r.ranker
     /\ sync' = [sync EXCEPT !.unseen = 0]
     /\ lastOp' = [kind |-> "query", reads |-> reads, answer |-> r.value,
                   changed |-> e.changed, deleted |-> e.deleted, parsed |-> e.parsed,
                   result |-> e.result, preamble |-> rk,
                   before |-> [cache |-> cache, doc |-> doc, ranker |-> ranker]]
     /\ UNCHANGED <<inputs, disk, clock>>

Reindex ==
  \E e \in {reindex(disk)} :
     /\ graph' = e.graph
     /\ prev' = graph
     /\ cache' = e.cache
     /\ doc' = e.doc
     /\ ranker' = NewRanker
     /\ sync' = [unseen |-> 0, strict |-> TRUE]
     /\ lastOp' = [kind |-> "reindex", result |-> e.result]
     /\ UNCHANGED <<inputs, disk, clock>>

NewSession ==
  /\ cache.initialized
  /\ graph' = EmptyGraph
  /\ prev' = graph
  /\ cache' = NewCache
  /\ ranker' = NewRanker
  /\ lastOp' = [kind |-> "new"]
  /\ UNCHANGED <<inputs, disk, clock, doc, sync>>

NextSession ==
  \/ \E p \in Files : \E fs \in FileSymbolsOf(p) : WriteFile(p, fs)
  \/ \E p \in Files : DeleteFile(p)
  \/ \E reads \in {"ensure", "ranked", "fileScores"} : Query(reads)
  \/ Reindex
  \/ NewSession

SpecSession == InitSession /\ [][NextSession]_vars

\* the tree as a session has seen it change: every change since the first
\* indexing was followed by an ensure() before the next one
isQuery == lastOp.kind = "query"

\* C2: after changes each followed by ensure(), the in-memory graph equals
\* the graph reindex() builds from the same tree.
C2_EnsureEqualsReindex ==
  (isQuery /\ sync.strict) => SameGraph(graph, reindex(disk).graph)

\* C9 (as stated): ensure() re-parses exactly the files with no stored mtime
\* or a newer mtime on disk, treats as deleted exactly the known paths no
\* longer found, and when there are none of either it parses nothing, returns
\* changed = 0 and deleted = 0 and leaves the graph, the mtimes map and the
\* persisted document unchanged.
storedMtimes ==
  IF lastOp.before.cache.initialized THEN lastOp.before.cache.mtimes
  ELSE IF lastOp.before.doc.present THEN lastOp.before.doc.mtimes
  ELSE <<>>

newerOnDisk ==
  {p \in Files : disk[p].present /\ (p \notin DOMAIN storedMtimes \/ storedMtimes[p] < disk[p].mtime)}

goneFromDisk == {p \in DOMAIN storedMtimes : ~disk[p].present}

isSetOf(list, S) ==
  /\ {list[i] : i \in 1..Len(list)} = S
  /\ \A i, j \in 1..Len(list) : list[i] = list[j] => i = j

classifiesExactly ==
  /\ isSetOf(lastOp.parsed, newerOnDisk)
  /\ isSetOf(lastOp.deleted, goneFromDisk)
  /\ lastOp.result.changed = Cardinality(newerOnDisk)
  /\ lastOp.result.deleted = Cardinality(goneFromDisk)

nothingToDo == newerOnDisk = {} /\ goneFromDisk = {}

C9_EnsureFrame ==
  isQuery =>
    /\ classifiesExactly
    /\ nothingToDo =>
         /\ graph = prev
         /\ cache.hasGraph = lastOp.before.cache.hasGraph
         /\ cache.mtimes = lastOp.before.cache.mtimes
         /\ doc = lastOp.before.doc

\* C9 (amended): as above, except that the graph and the mtimes map are left
\* unchanged only by an initialized cache; the first ensure() of a session
\* makes them the graph and mtimes of the persisted document, or the empty
\* graph and the empty map when there is none.
C9_EnsureFrameInitialized ==
  isQuery =>
    /\ classifiesExactly
    /\ nothingToDo =>
         /\ doc = lastOp.before.doc
         /\ cache.hasGraph /\ cache.initialized
         /\ cache.mtimes = storedMtimes
         /\ lastOp.before.cache.initialized =>
              graph = prev /\ cache = lastOp.before.cache
         /\ ~lastOp.before.cache.initialized =>
              graph = IF doc.present THEN importGraph(doc.graph) ELSE EmptyGraph

C9_Witness ==
  /\ isQuery
  /\ nothingToDo
  /\ lastOp.before.cache.initialized
  /\ Len(graph.order) > 0
  /\ doc.present
  /\ clock > 1

\* C10: every query answers with the unfocused ranking and the file scores
\* of the graph as its ensure() left it; the cached ranking and file scores
\* are discarded by the preamble exactly when ensure() reports changed > 0 or
\* deleted > 0, and a cached value is always the one of the current graph.
currentRanking == rankedSymbols(graph, <<>>)

C10_RankingIsCurrent ==
  /\ ranker.rankedCache # <<>> => ranker.rankedCache[1] = currentRanking
  /\ ranker.fileScoresCache # <<>> =>
       ranker.fileScoresCache[1] = fileScores(currentRanking, graph)
  /\ isQuery =>
       /\ lastOp.reads = "ranked" => lastOp.answer = currentRanking
       /\ lastOp.reads = "fileScores" => lastOp.answer = fileScores(currentRanking, graph)
       /\ lastOp.preamble =
            IF lastOp.result.changed > 0 \/ lastOp.result.deleted > 0
              THEN NewRanker ELSE lastOp.before.ranker

C10_Witness ==
  /\ isQuery
  /\ lastOp.reads = "ranked"
  /\ lastOp.before.ranker.rankedCache # <<>>
  /\ lastOp.result.changed = 0 /\ lastOp.result.deleted > 0
  /\ lastOp.before.ranker.rankedCache[1] # lastOp.answer

\* --------------------------------------------- disambiguation behaviours
\* disambiguateTargets on the graph of a tree in which every file defines
\* the same name, for every candidate list and referencing file.
everyFileDefines ==
  [i \in 1..Len(FileOrder) |->
     [file |-> FileOrder[i],
      definitions |-> Definitions([k \in 1..1 |-> CHOOSE n \in Names : TRUE]),
      references |-> <<>>]]

InitDisambiguate ==
  /\ graph = buildGraph(everyFileDefines)
  /\ prev = EmptyGraph
  /\ inputs = everyFileDefines
  /\ lastOp = [kind |-> "init"]
  /\ NoSession

Disambiguate(targets, sourceFile) ==
  /\ lastOp.kind = "init"
  /\ lastOp' = [kind |-> "disambiguate", targets |-> targets, sourceFile |-> sourceFile,
                resolved |-> disambiguateTargets(targets, sourceFile, graph)]
  /\ UNCHANGED <<graph, prev, inputs>>
  /\ UNCHANGED sessionVars

NextDisambiguate ==
  \E targets \in SeqsUpTo(SymbolNodes(graph), MaxTargets), sourceFile \in Files :
    Disambiguate(targets, sourceFile)

SpecDisambiguate == InitDisambiguate /\ [][NextDisambiguate]_vars

sameFileTargets ==
  SelectSeq(lastOp.targets, LAMBDA t : graph.attrs[t].file = lastOp.sourceFile)

\* C7: the resolved targets are T when |T| = 1; otherwise the candidates of
\* the referencing file when there is one; otherwise nothing when
\* |T| > AMBIGUITY_CAP; otherwise all of T.
C7_Disambiguation ==
  lastOp.kind = "disambiguate" =>
    LET T == lastOp.targets
        S == sameFileTargets
    IN /\ Len(T) = 1 => lastOp.resolved = T
       /\ (Len(T) # 1 /\ Len(S) >= 1) => lastOp.resolved = S
       /\ (Len(T) # 1 /\ Len(S) = 0 /\ Len(T) > 5) => lastOp.resolved = <<>>
       /\ (Len(T) # 1 /\ Len(S) = 0 /\ Len(T) <= 5) => lastOp.resolved = T

C7_Witness ==
  /\ lastOp.kind = "disambiguate"
  /\ Len(lastOp.targets) = AMBIGUITY_CAP + 1
  /\ sameFileTargets = <<>>
  /\ lastOp.resolved = <<>>

\* ------------------------------------------------ index.js, list operators
\* An optional argument is <<>> when undefined and <<v>> when given; a file
\* or symbol argument is the empty string when not given (both are falsy).
\* A returned array is [array |-> items]; a returned object is the record of
\* its keys; an exception is [throws |-> message].
MaxOffset == 2
MaxLimit == 2
MaxScore == 2
MAX_SUGGESTIONS == 5

\* Array.prototype.slice(start, end) for 0 <= start, 0 <= end
slice(arr, start, end) ==
  LET s == IF start > Len(arr) THEN Len(arr) ELSE start
      e == IF end > Len(arr) THEN Len(arr) ELSE end
  IN IF e <= s THEN <<>> ELSE SubSeq(arr, s + 1, e)

\* slice(start, limit): the end taken for the length
paginateEndIsLimit(arr, offset, limit) ==
  LET off == IF offset = <<>> THEN 0 ELSE offset[1]
      start == IF off < 0 THEN 0 ELSE off
  IN [items |-> IF limit # <<>> THEN slice(arr, start, limit[1])
                ELSE slice(arr, start, Len(arr)),
      total |-> Len(arr)]

paginate(arr, offset, limit) ==
  LET off == IF offset = <<>> THEN 0 ELSE offset[1]
      start == IF off < 0 THEN 0 ELSE off
  IN [items |-> IF limit # <<>> THEN slice(arr, start, start + limit[1])
                ELSE slice(arr, start, Len(arr)),
      total |-> Len(arr)]

\* Array.prototype.sort((a, b) => b._score - a._score) on <<item, score>>
\* pairs: descending and stable
insertByScore(sorted, x) ==
  LET k == Len(SelectSeq(sorted, LAMBDA y : y[2] >= x[2]))
  IN SubSeq(sorted, 1, k) \o <<x>> \o SubSeq(sorted, k + 1, Len(sorted))

RECURSIVE sortByScore(_)
sortByScore(pairs) ==
  IF pairs = <<>> THEN <<>>
  ELSE insertByScore(sortByScore(SubSeq(pairs, 1, Len(pairs) - 1)), pairs[Len(pairs)])

\* for (const r of results) delete r._score
items(pairs) == [i \in 1..Len(pairs) |-> pairs[i][1]]

\* the symbol nodes and the file nodes in forEachNode order
symbolKeys(g) == SelectSeq(g.order, LAMBDA n : g.attrs[n].type = "symbol")

fileKeys(g) == SelectSeq(g.order, LAMBDA n : g.attrs[n].type = "file")

\* rankedSymbols as its callers read it: [symbolKey, score] for the symbol
\* nodes, sorted descending.  pr is what pagerank and the path weights give
\* each symbol node, in hundredths; any assignment is allowed.
rankedByScore(g, pr) ==
  IF Len(g.order) = 0 THEN <<>>
  ELSE sortByScore([i \in 1..Len(symbolKeys(g)) |->
                      <<symbolKeys(g)[i], pr[symbolKeys(g)[i]]>>])

\* new Map(ranked).get(key) || 0
scoreOf(ranked, key) ==
  IF \E i \in 1..Len(ranked) : ranked[i][1] = key
    THEN ranked[CHOOSE i \in 1..Len(ranked) : ranked[i][1] = key][2]
    ELSE 0

\* _getFileScores().get(file) || 0: the scores of the file's symbols, summed
RECURSIVE fileScoreOf(_, _, _)
fileScoreOf(ranked, g, file) ==
  IF ranked = <<>> THEN 0
  ELSE (IF g.attrs[Head(ranked)[1]].file = file THEN Head(ranked)[2] ELSE 0)
       + fileScoreOf(Tail(ranked), g, file)

\* the entry pushed for a symbol node
symbolEntry(g, n) ==
  [name |-> g.attrs[n].name, file |-> g.attrs[n].file, lineStart |-> g.attrs[n].lineStart]

\* String.prototype.includes on the paths and names of the model, which are
\* single tokens: a token includes itself and the empty string
includes(text, part) == part = "" \/ part = text

findSimilarFiles(g, hasGraph, filePath) ==
  IF ~hasGraph THEN <<>>
  ELSE slice(SelectSeq(fileKeys(g), LAMBDA n : includes(n[1], filePath)), 0, MAX_SUGGESTIONS)

\* map(): text and structured output both list the page's entries by file
map(g, hasGraph, pr, offset, limit, count) ==
  IF ~hasGraph \/ Len(g.order) = 0
    THEN IF count THEN [total |-> 0, diagnostics |-> TRUE]
         ELSE [items |-> <<>>, shownSymbols |-> 0, totalFiles |-> 0, totalSymbols |-> 0,
               diagnostics |-> TRUE]
  ELSE LET ranked == rankedByScore(g, pr)
           symbolsRanked == SelectSeq(ranked, LAMBDA r : hasNode(g, r[1])
                                                        /\ g.attrs[r[1]].type = "symbol")
           allEntries == [i \in 1..Len(symbolsRanked) |-> symbolEntry(g, symbolsRanked[i][1])]
           page == paginate(allEntries, offset, limit).items
       IN IF count THEN [total |-> Len(allEntries)]
          ELSE [items |-> page, shownSymbols |-> Len(page),
                totalFiles |-> Len(fileKeys(g)), totalSymbols |-> Len(symbolKeys(g))]

\* the entries of the matching symbol nodes with their scores, sorted
scoredSymbols(g, pr, keep(_)) ==
  LET ranked == rankedByScore(g, pr)
      kept == SelectSeq(symbolKeys(g), keep)
  IN items(sortByScore([i \in 1..Len(kept) |->
                          <<symbolEntry(g, kept[i]), scoreOf(ranked, kept[i])>>]))

\* what every list operator returns of its full result
listResult(results, offset, limit, count) ==
  IF count THEN [total |-> Len(results)]
  ELSE [array |-> paginate(results, offset, limit).items]

\* search(): the signature is not modelled; the match is the name's
search(g, hasGraph, pr, query, offset, limit, count) ==
  IF ~hasGraph \/ Len(g.order) = 0
    THEN IF count THEN [total |-> 0] ELSE [array |-> <<>>]
  ELSE listResult(scoredSymbols(g, pr, LAMBDA n : includes(g.attrs[n].name, query)),
                  offset, limit, count)

symbols(g, hasGraph, pr, file, offset, limit, count) ==
  IF ~hasGraph \/ Len(g.order) = 0
    THEN IF count THEN [total |-> 0] ELSE [array |-> <<>>]
  ELSE listResult(scoredSymbols(g, pr, LAMBDA n : file = "" \/ g.attrs[n].file = file),
                  offset, limit, count)

\* callers(): the nodes named symbol (of file, when given)
targetKeysOf(g, symbol, file) ==
  SelectSeq(symbolKeys(g),
            LAMBDA n : g.attrs[n].name = symbol /\ (file = "" \/ g.attrs[n].file = file))

\* forEachInEdge(target) over the edges of one type: the sources
inSources(g, type, target) ==
  SelectSeq(g.order, LAMBDA src : <<type, src, target>> \in DOMAIN g.edges)

\* forEachOutEdge(source) over the edges of one type: the targets
outTargets(g, type, source) ==
  SelectSeq(g.order, LAMBDA tgt : <<type, source, tgt>> \in DOMAIN g.edges)

\* sourceAttrs.file || source
fileOfNode(g, n) == IF g.attrs[n].file # "" THEN g.attrs[n].file ELSE n[1]

\* the callerSet loop: each caller file once, in the order met
RECURSIVE addCallers(_, _, _)
addCallers(g, found, sources) ==
  IF sources = <<>> THEN found
  ELSE LET callerFile == fileOfNode(g, Head(sources))
       IN addCallers(g,
                     IF \E i \in 1..Len(found) : found[i] = callerFile THEN found
                     ELSE Append(found, callerFile),
                     Tail(sources))

RECURSIVE callerFilesOf(_, _, _)
callerFilesOf(g, found, targetKeys) ==
  IF targetKeys = <<>> THEN found
  ELSE callerFilesOf(g, addCallers(g, found, inSources(g, "REFERENCES", Head(targetKeys))),
                     Tail(targetKeys))

callers(g, hasGraph, pr, symbol, file, offset, limit, count) ==
  IF ~hasGraph THEN IF count THEN [total |-> 0] ELSE [array |-> <<>>]
  ELSE LET ranked == rankedByScore(g, pr)
           found == callerFilesOf(g, <<>>, targetKeysOf(g, symbol, file))
           results == items(sortByScore([i \in 1..Len(found) |->
                        <<[file |-> found[i]], fileScoreOf(ranked, g, found[i])>>]))
       IN listResult(results, offset, limit, count)

\* the response to a file that is not a node
fileNotFound(g, hasGraph, file, count) ==
  IF count THEN [total |-> 0, fileNotFound |-> TRUE,
                 suggestions |-> findSimilarFiles(g, hasGraph, file)]
  ELSE [items |-> <<>>, fileNotFound |-> TRUE,
        suggestions |-> findSimilarFiles(g, hasGraph, file)]

\* [...deps].sort by file score, descending
sortFiles(g, pr, nodes) ==
  items(sortByScore([i \in 1..Len(nodes) |->
                       <<nodes[i][1], fileScoreOf(rankedByScore(g, pr), g, nodes[i][1])>>]))

dependencies(g, hasGraph, pr, file, offset, limit, count) ==
  IF ~hasGraph \/ ~hasNode(g, FileId(file)) THEN fileNotFound(g, hasGraph, file, count)
  ELSE listResult(sortFiles(g, pr, SelectSeq(outTargets(g, "IMPORTS", FileId(file)),
                                             LAMBDA n : g.attrs[n].type = "file")),
                  offset, limit, count)

dependents(g, hasGraph, pr, file, offset, limit, count) ==
  IF ~hasGraph \/ ~hasNode(g, FileId(file)) THEN fileNotFound(g, hasGraph, file, count)
  ELSE listResult(sortFiles(g, pr, SelectSeq(inSources(g, "IMPORTS", FileId(file)),
                                             LAMBDA n : g.attrs[n].type = "file")),
                  offset, limit, count)

\* isOrphanFalsePositiveFile and isOrphanFalsePositiveSymbol test the path
\* and the name against fixed patterns; of the model's paths, TestFiles are
\* the ones that match (a test file, say), and no name of the model matches
TestFiles == {"c"}

isOrphanFalsePositiveFile(filePath) == filePath \in TestFiles

isOrphanFalsePositiveSymbol(name, filePath) == isOrphanFalsePositiveFile(filePath)

\* a.file.localeCompare(b.file) || a.lineStart - b.lineStart, as a key
fileIndex(file) == CHOOSE i \in 1..Len(WalkOrder) : WalkOrder[i] = file

fileThenLine(entry) == 0 - (fileIndex(entry.file) * 1000 + entry.lineStart)

orphanFiles(g) ==
  LET lonely == SelectSeq(fileKeys(g),
                  LAMBDA n : /\ ~isOrphanFalsePositiveFile(n[1])
                             /\ ~\E e \in DOMAIN g.edges :
                                   e[1] = "IMPORTS" /\ (e[2] = n \/ e[3] = n))
  IN items(sortByScore([i \in 1..Len(lonely) |->
             <<[file |-> lonely[i][1], symbolCount |-> g.attrs[lonely[i]].symbolCount],
               g.attrs[lonely[i]].symbolCount>>]))

orphanSymbols(g) ==
  LET unused == SelectSeq(symbolKeys(g),
                  LAMBDA n : /\ ~isOrphanFalsePositiveSymbol(g.attrs[n].name, g.attrs[n].file)
                             /\ ~\E e \in DOMAIN g.edges :
                                   /\ e[1] = "REFERENCES" /\ e[3] = n
                                   /\ fileOfNode(g, e[2]) # g.attrs[n].file)
  IN items(sortByScore([i \in 1..Len(unused) |->
             <<symbolEntry(g, unused[i]), fileThenLine(symbolEntry(g, unused[i]))>>]))

orphans(g, hasGraph, level, offset, limit, count) ==
  IF ~hasGraph \/ Len(g.order) = 0
    THEN IF count THEN [total |-> 0] ELSE [array |-> <<>>]
  ELSE IF level = "file" THEN listResult(orphanFiles(g), offset, limit, count)
  ELSE IF level = "symbol" THEN listResult(orphanSymbols(g), offset, limit, count)
  ELSE [throws |-> "Unknown level"]

\* --------------------------------------------------- index.js, neighborhood
\* the BFS over outgoing IMPORTS edges: fileHops as <<node, depth>> pairs in
\* the order set; the targets of a node are met in node order
RECURSIVE bfsImports(_, _, _, _)
bfsImports(g, hops, queue, fileHops) ==
  IF queue = <<>> THEN fileHops
  ELSE LET node == Head(queue)[1]
           depth == Head(queue)[2]
           targets == SelectSeq(outTargets(g, "IMPORTS", node),
                        LAMBDA t : /\ g.attrs[t].type = "file"
                                   /\ ~\E i \in 1..Len(fileHops) : fileHops[i][1] = t)
           new == [i \in 1..Len(targets) |-> <<targets[i], depth + 1>>]
       IN IF depth >= hops THEN bfsImports(g, hops, Tail(queue), fileHops)
          ELSE bfsImports(g, hops, Tail(queue) \o new, fileHops \o new)

\* directDependents: the file nodes with an IMPORTS edge into the file
directDependents(g, file, includeDependents) ==
  IF includeDependents
    THEN SelectSeq(inSources(g, "IMPORTS", FileId(file)), LAMBDA n : g.attrs[n].type = "file")
    ELSE <<>>

\* fileHops after the dependents loop: a dependent not yet met gets hop 1
visitedFiles(g, file, hops, includeDependents) ==
  LET fileHops == bfsImports(g, hops, <<<<FileId(file), 0>>>>, <<<<FileId(file), 0>>>>)
      more == SelectSeq(directDependents(g, file, includeDependents),
                LAMBDA n : ~\E i \in 1..Len(fileHops) : fileHops[i][1] = n)
  IN fileHops \o [i \in 1..Len(more) |-> <<more[i], 1>>]

directFiles(g, file, includeDependents) ==
  {FileId(file)}
    \cup {t \in DOMAIN g.attrs : <<"IMPORTS", FileId(file), t>> \in DOMAIN g.edges}
    \cup {directDependents(g, file, includeDependents)[i] :
            i \in 1..Len(directDependents(g, file, includeDependents))}

\* filePR: prMap.get(target) || 0 added once per DEFINES edge of the file
RECURSIVE filePR(_, _, _, _)
filePR(g, ranked, f, targets) ==
  IF targets = <<>> THEN 0
  ELSE g.edges[<<"DEFINES", f, Head(targets)>>] * scoreOf(ranked, Head(targets))
       + filePR(g, ranked, f, Tail(targets))

\* (isDirect ? 1e6 : 0) + filePR * 1e4 - hopDist, with filePR in hundredths
\* and hopDist = fileHops.get(f) || 99
fileScored(g, ranked, file, hops, includeDependents) ==
  LET visited == visitedFiles(g, file, hops, includeDependents)
      direct == directFiles(g, file, includeDependents)
      hopDist(d) == IF d = 0 THEN 99 ELSE d
  IN sortByScore([i \in 1..Len(visited) |->
       <<[file |-> visited[i][1], isDirect |-> visited[i][1] \in direct],
         (IF visited[i][1] \in direct THEN 1000000 ELSE 0)
           + filePR(g, ranked, visited[i][1], outTargets(g, "DEFINES", visited[i][1])) * 100
           - hopDist(visited[i][2])>>])

\* the cap loop over the sorted entries
RECURSIVE capFiles(_, _, _)
capFiles(scored, maxFiles, cappedFiles) ==
  IF scored = <<>> THEN cappedFiles
  ELSE capFiles(Tail(scored), maxFiles,
         IF Head(scored).isDirect \/ Len(cappedFiles) < maxFiles
           THEN Append(cappedFiles, Head(scored).file) ELSE cappedFiles)

neighborhood(g, hasGraph, pr, file, hops, includeDependents, maxFiles, offset, limit, count) ==
  IF ~hasGraph \/ ~hasNode(g, FileId(file))
    THEN IF count THEN [totalFiles |-> 0, totalSymbols |-> 0, totalEdges |-> 0,
                        fileNotFound |-> TRUE,
                        suggestions |-> findSimilarFiles(g, hasGraph, file)]
         ELSE [files |-> <<>>, symbols |-> <<>>, edges |-> <<>>, fileNotFound |-> TRUE,
               suggestions |-> findSimilarFiles(g, hasGraph, file)]
  ELSE LET ranked == rankedByScore(g, pr)
           scored == fileScored(g, ranked, file, hops, includeDependents)
           cappedFiles == capFiles(items(scored), maxFiles, <<>>)
           cappedSet == {cappedFiles[i] : i \in 1..Len(cappedFiles)}
           outs == SelectSeq(outTargets(g, "IMPORTS", FileId(file)), LAMBDA t : t \in cappedSet)
           ins == SelectSeq(inSources(g, "IMPORTS", FileId(file)), LAMBDA n : n \in cappedSet)
           edges == [i \in 1..Len(outs) |-> [source |-> file, target |-> outs[i][1],
                                             type |-> "IMPORTS"]]
                    \o [i \in 1..Len(ins) |-> [source |-> ins[i][1], target |-> file,
                                               type |-> "IMPORTS"]]
           symbolsOf(fileSet) ==
             LET kept == SelectSeq(ranked, LAMBDA r : /\ g.attrs[r[1]].type = "symbol"
                                                      /\ FileId(g.attrs[r[1]].file) \in fileSet)
             IN [i \in 1..Len(kept) |-> symbolEntry(g, kept[i][1])]
           paginatedFiles == paginate(cappedFiles, offset, limit).items
           paginatedFileSet == {paginatedFiles[i] : i \in 1..Len(paginatedFiles)}
       IN IF count
            THEN [totalFiles |-> Len(cappedFiles), totalSymbols |-> Len(symbolsOf(cappedSet)),
                  totalEdges |-> Len(edges), totalVisited |-> Len(scored)]
            ELSE [files |-> [i \in 1..Len(paginatedFiles) |-> paginatedFiles[i][1]],
                  symbols |-> symbolsOf(paginatedFileSet),
                  edges |-> SelectSeq(edges, LAMBDA e : \/ FileId(e.source) \in paginatedFileSet
                                                        \/ FileId(e.target) \in paginatedFileSet),
                  total |-> Len(cappedFiles)]

\* ------------------------------------------------------- query behaviours
\* One CodeIndex over a tree that its first ensure() has indexed; then one
\* query operator runs: _ensureReady(), which finds nothing changed, and the
\* operator's reads of the graph.  pr is the PageRank the ranking returns.
MaxQueryDefs == 1
MaxQueryRefs == 1

QuerySymbolsOf(file) ==
  {[file |-> file, definitions |-> Definitions(d), references |-> r] :
     d \in NameSeqs(MaxQueryDefs), r \in NameSeqs(MaxQueryRefs)}

QueryEntries(p) ==
  {NoFile(p)} \cup {[present |-> TRUE, mtime |-> 1, fs |-> fs] : fs \in QuerySymbolsOf(p)}

QueryTrees ==
  {dk \in [Files -> UNION {QueryEntries(p) : p \in Files}] : \A p \in Files : dk[p].fs.file = p}

Offsets == 0..MaxOffset
Limits == {<<>>} \cup {<<n>> : n \in 0..MaxLimit}
Scores(g) == [SymbolNodes(g) -> 1..MaxScore]
FileArgs == Files \cup {"", "d"}
NameArgs == Names \cup {"", "x"}
Levels == {"file", "symbol", "dir"}

\* a query: the operator and its arguments (the ones it does not take are "")
NoQuery == [kind |-> "", pr |-> <<>>, offset |-> <<>>, limit |-> <<>>, count |-> FALSE,
            file |-> "", symbol |-> "", query |-> "", level |-> "",
            hops |-> 0, includeDependents |-> FALSE, maxFiles |-> 0]

\* the operator a query record names, applied to its arguments
answer(g, hasGraph, q) ==
  CASE q.kind = "map" -> map(g, hasGraph, q.pr, q.offset, q.limit, q.count)
    [] q.kind = "search" -> search(g, hasGraph, q.pr, q.query, q.offset, q.limit, q.count)
    [] q.kind = "symbols" -> symbols(g, hasGraph, q.pr, q.file, q.offset, q.limit, q.count)
    [] q.kind = "callers" ->
         callers(g, hasGraph, q.pr, q.symbol, q.file, q.offset, q.limit, q.count)
    [] q.kind = "dependencies" ->
         dependencies(g, hasGraph, q.pr, q.file, q.offset, q.limit, q.count)
    [] q.kind = "dependents" ->
         dependents(g, hasGraph, q.pr, q.file, q.offset, q.limit, q.count)
    [] q.kind = "orphans" -> orphans(g, hasGraph, q.level, q.offset, q.limit, q.count)
    [] q.kind = "neighborhood" ->
         neighborhood(g, hasGraph, q.pr, q.file, q.hops, q.includeDependents, q.maxFiles,
                      q.offset, q.limit, q.count)

InitQueries ==
  \E dk \in QueryTrees : \E e \in {reindex(dk)} :
    /\ disk = dk
    /\ clock = 1
    /\ graph = e.graph
    /\ cache = e.cache
    /\ doc = e.doc
    /\ ranker = NewRanker
    /\ sync = [unseen |-> 0, strict |-> TRUE]
    /\ prev = EmptyGraph
    /\ inputs = parseFiles(dk, globFiles(dk))
    /\ lastOp = [kind |-> "indexed"]

\* the operator q: e is what its _ensureReady() left, response what the
\* operator then answers from e.graph
Ask(q, e, response) ==
  /\ lastOp.kind \in {"indexed", "written"}
  /\ graph' = e.graph
  /\ prev' = graph
  /\ cache' = e.cache
  /\ doc' = e.doc
  /\ ranker' = invalidate(ranker, e.result)
  /\ lastOp' = [kind |-> q.kind, q |-> q, response |-> response]
  /\ UNCHANGED <<inputs, disk, clock, sync>>

Paged(q, offset, limit, count) ==
  [q EXCEPT !.offset = offset, !.limit = limit, !.count = count]

MapQuery(pr, offset, limit, count) ==
  \E e \in {ensure(cache, graph, doc, disk)} :
    Ask(Paged([NoQuery EXCEPT !.kind = "map", !.pr = pr], offset, limit, count), e,
        map(e.graph, e.cache.hasGraph, pr, offset, limit, count))

SearchQuery(pr, query, offset, limit, count) ==
  \E e \in {ensure(cache, graph, doc, disk)} :
    Ask(Paged([NoQuery EXCEPT !.kind = "search", !.pr = pr, !.query = query],
              offset, limit, count), e,
        search(e.graph, e.cache.hasGraph, pr, query, offset, limit, count))

SymbolsQuery(pr, file, offset, limit, count) ==
  \E e \in {ensure(cache, graph, doc, disk)} :
    Ask(Paged([NoQuery EXCEPT !.kind = "symbols", !.pr = pr, !.file = file],
              offset, limit, count), e,
        symbols(e.graph, e.cache.hasGraph, pr, file, offset, limit, count))

CallersQuery(pr, symbol, file, offset, limit, count) ==
  \E e \in {ensure(cache, graph, doc, disk)} :
    Ask(Paged([NoQuery EXCEPT !.kind = "callers", !.pr = pr, !.symbol = symbol,
                              !.file = file], offset, limit, count), e,
        callers(e.graph, e.cache.hasGraph, pr, symbol, file, offset, limit, count))

DependenciesQuery(pr, file, offset, limit, count) ==
  \E e \in {ensure(cache, graph, doc, disk)} :
    Ask(Paged([NoQuery EXCEPT !.kind = "dependencies", !.pr = pr, !.file = file],
              offset, limit, count), e,
        dependencies(e.graph, e.cache.hasGraph, pr, file, offset, limit, count))

DependentsQuery(pr, file, offset, limit, count) ==
  \E e \in {ensure(cache, graph, doc, disk)} :
    Ask(Paged([NoQuery EXCEPT !.kind = "dependents", !.pr = pr, !.file = file],
              offset, limit, count), e,
        dependents(e.graph, e.cache.hasGraph, pr, file, offset, limit, count))

OrphansQuery(level, offset, limit, count) ==
  \E e \in {ensure(cache, graph, doc, disk)} :
    Ask(Paged([NoQuery EXCEPT !.kind = "orphans", !.level = level], offset, limit, count), e,
        orphans(e.graph, e.cache.hasGraph, level, offset, limit, count))

\* {count: true} ignores offset and limit
Pages ==
  {[offset |-> <<>>, limit |-> <<>>, count |-> TRUE]}
    \cup {[offset |-> offset, limit |-> limit, count |-> FALSE] :
            offset \in {<<>>} \cup {<<n>> : n \in Offsets}, limit \in Limits}

NextQueries ==
  /\ lastOp.kind = "indexed"
  /\ \E page \in Pages :
       \/ \E pr \in Scores(graph) : MapQuery(pr, page.offset, page.limit, page.count)
       \/ \E pr \in Scores(graph), query \in NameArgs :
            SearchQuery(pr, query, page.offset, page.limit, page.count)
       \/ \E pr \in Scores(graph), file \in FileArgs :
            SymbolsQuery(pr, file, page.offset, page.limit, page.count)
       \/ \E pr \in Scores(graph), symbol \in NameArgs \ {""}, file \in FileArgs :
            CallersQuery(pr, symbol, file, page.offset, page.limit, page.count)
       \/ \E pr \in Scores(graph), file \in FileArgs :
            DependenciesQuery(pr, file, page.offset, page.limit, page.count)
       \/ \E pr \in Scores(graph), file \in FileArgs :
            DependentsQuery(pr, file, page.offset, page.limit, page.count)
       \/ \E level \in Levels : OrphansQuery(level, page.offset, page.limit, page.count)

SpecQueries == InitQueries /\ [][NextQueries]_vars

ListOperators ==
  {"map", "search", "symbols", "callers", "dependencies", "dependents", "orphans"}

isListQuery == lastOp.kind \in ListOperators /\ "throws" \notin DOMAIN lastOp.response

itemsOf(response) == IF "array" \in DOMAIN response THEN response.array ELSE response.items

\* the operator's full result: the same query with no offset, limit or count
fullResult == itemsOf(answer(graph, cache.hasGraph, Paged(lastOp.q, <<>>, <<>>, FALSE)))

pageOf(offset, limit) ==
  itemsOf(answer(graph, cache.hasGraph, Paged(lastOp.q, <<offset>>, <<limit>>, FALSE)))

RECURSIVE pagesFrom(_, _)
pagesFrom(offset, limit) ==
  IF offset >= Len(fullResult) THEN <<>>
  ELSE pageOf(offset, limit) \o pagesFrom(offset + limit, limit)

Rewrite(p, entry) ==
  /\ lastOp.kind = "indexed"
  /\ entry # disk[p]
  /\ disk' = [disk EXCEPT ![p] = IF entry.present THEN [entry EXCEPT !.mtime = clock + 1]
                                  ELSE entry]
  /\ clock' = clock + 1
  /\ inputs' = parseFiles(disk', globFiles(disk'))
  /\ lastOp' = [kind |-> "written"]
  /\ UNCHANGED <<graph, prev, doc, cache, ranker, sync>>

NextCallers ==
  \/ \E p \in Files : \E entry \in QueryEntries(p) : Rewrite(p, entry)
  \/ /\ lastOp.kind \in {"indexed", "written"}
     /\ \E pr \in Scores(ensure(cache, graph, doc, disk).graph), symbol \in NameArgs \ {""},
           file \in FileArgs, count \in BOOLEAN :
          CallersQuery(pr, symbol, file, <<>>, <<>>, count)

SpecCallers == InitQueries /\ [][NextCallers]_vars

\* the files with a REFERENCES edge into a node named symbol (of file)
referencingFiles(symbol, file) ==
  {fileOfNode(graph, e[2]) : e \in {x \in Edges(graph, "REFERENCES") :
      /\ graph.attrs[x[3]].type = "symbol"
      /\ graph.attrs[x[3]].name = symbol
      /\ (file = "" \/ graph.attrs[x[3]].file = file)}}

\* the files of the tree whose record defines, or references, the name
definingFiles(name) ==
  {inputs[i].file : i \in {j \in 1..Len(inputs) :
      \E k \in 1..Len(inputs[j].definitions) : inputs[j].definitions[k].name = name}}

callingFiles(name) ==
  {inputs[i].file : i \in {j \in 1..Len(inputs) :
      \E k \in 1..Len(inputs[j].references) : inputs[j].references[k] = name}}

\* callers() answers with exactly the files that hold a REFERENCES edge into
\* a matching symbol node, each once
unpaged == lastOp.q.offset = <<>> /\ lastOp.q.limit = <<>>

C12_CallersAreReferencingFiles ==
  (lastOp.kind = "callers" /\ unpaged) =>
    IF lastOp.q.count
      THEN lastOp.response.total = Cardinality(referencingFiles(lastOp.q.symbol, lastOp.q.file))
      ELSE isSetOf([i \in 1..Len(lastOp.response.array) |-> lastOp.response.array[i].file],
                   referencingFiles(lastOp.q.symbol, lastOp.q.file))

\* C12: callers({symbol, file?}) answers with exactly the distinct files that
\* are the source of a REFERENCES edge into a symbol node of that name (and
\* file), each once; and when only file a defines f and only file b, another
\* file, calls it, callers({symbol: f}) is [b].
C12_CallersExact ==
  /\ C12_CallersAreReferencingFiles
  /\ (lastOp.kind = "callers" /\ unpaged /\ ~lastOp.q.count /\ lastOp.q.file = "") =>
       \A a, b \in Files :
         (/\ a # b
          /\ definingFiles(lastOp.q.symbol) = {a}
          /\ callingFiles(lastOp.q.symbol) = {b})
           => lastOp.response.array = <<[file |-> b]>>

\* ----------------------------------------------- corrupted cache behaviours
\* A new CodeIndexCache over a tree and a persisted document that an earlier
\* session wrote for some tree and that has since been damaged: it no longer
\* parses, or carries another version.  Then the first ensure().
OtherVersions == {0, 3}

CorruptDocs ==
  UNION {{[e.doc EXCEPT !.valid = FALSE]} \cup {[e.doc EXCEPT !.version = v] : v \in OtherVersions} :
           e \in {reindex(dk) : dk \in QueryTrees \ {[p \in Files |-> NoFile(p)]}}}

InitCorrupt ==
  \E dk \in QueryTrees, d \in CorruptDocs :
    /\ disk = dk
    /\ clock = 1
    /\ doc = d
    /\ graph = EmptyGraph
    /\ cache = NewCache
    /\ ranker = NewRanker
    /\ sync = [unseen |-> 0, strict |-> TRUE]
    /\ prev = EmptyGraph
    /\ inputs = parseFiles(dk, globFiles(dk))
    /\ lastOp = [kind |-> "new"]

FirstEnsure ==
  /\ ~cache.initialized
  /\ Query("ensure")

SpecCorrupt == InitCorrupt /\ [][FirstEnsure]_vars

isCorrupt(d) == d.present /\ (~d.valid \/ d.version \notin {1, 2})

\* C13: with a persisted document that does not parse or whose version is
\* neither 1 nor 2, the first ensure() does what it does with no document:
\* it parses every file found and leaves the graph cold-built from them.
C13_CorruptCacheIsNoCache ==
  (isQuery /\ ~lastOp.before.cache.initialized /\ isCorrupt(lastOp.before.doc)) =>
    LET none == ensure(NewCache, EmptyGraph, NoDoc, disk)
    IN /\ lastOp.parsed = globFiles(disk)
       /\ graph = buildGraph(parseFiles(disk, globFiles(disk)))
       /\ graph = none.graph /\ cache = none.cache
       /\ lastOp.result = none.result
       /\ doc = IF globFiles(disk) = <<>> THEN lastOp.before.doc ELSE none.doc

C13_Witness ==
  /\ isQuery /\ isCorrupt(lastOp.before.doc)
  /\ lastOp.before.doc.version = 3
  /\ lastOp.before.doc.mtimes = cache.mtimes
  /\ ~SameGraph(importGraph(lastOp.before.doc.graph), graph)
  /\ Len(graph.order) > 1

\* ------------------------------------------------------- persistence claims
\* the query's ensure() wrote the document from the graph and mtimes it left
hasSaved == isQuery /\ doc # lastOp.before.doc

InitFailure ==
  \/ InitQueries
  \/ \E dk \in QueryTrees :
       /\ disk = dk
       /\ clock = 1
       /\ graph = EmptyGraph
       /\ cache = NewCache
       /\ doc = NoDoc
       /\ ranker = NewRanker
       /\ sync = [unseen |-> 0, strict |-> TRUE]
       /\ prev = EmptyGraph
       /\ inputs = parseFiles(dk, globFiles(dk))
       /\ lastOp = [kind |-> "new"]

Break(p) ==
  /\ lastOp.kind \in {"new", "indexed", "written"}
  /\ disk' = [disk EXCEPT ![p] = [present |-> TRUE, mtime |-> clock + 1,
                                  fs |-> Unparseable(p)]]
  /\ clock' = clock + 1
  /\ inputs' = parseFiles(disk', globFiles(disk'))
  /\ lastOp' = [kind |-> "broken", file |-> p]
  /\ UNCHANGED <<graph, prev, doc, cache, ranker, sync>>

EnsureAfterFailure ==
  /\ lastOp.kind = "broken"
  /\ Query("ensure")

NextFailure ==
  \/ \E p \in Files : \E entry \in QueryEntries(p) : Rewrite(p, entry)
  \/ \E p \in Files : Break(p)
  \/ EnsureAfterFailure

SpecFailure == InitFailure /\ [][NextFailure]_vars

\* the nodes of fs are in g: the file node with its symbol count and a symbol
\* node for each definition, each under a DEFINES edge of the file
merged(g, fs) ==
  /\ hasNode(g, FileId(fs.file))
  /\ g.attrs[FileId(fs.file)].type = "file"
  /\ g.attrs[FileId(fs.file)].symbolCount = Len(fs.definitions)
  /\ \A i \in 1..Len(fs.definitions) :
       /\ hasNode(g, SymbolKey(fs.file, fs.definitions[i].name))
       /\ g.attrs[SymbolKey(fs.file, fs.definitions[i].name)].file = fs.file
       /\ <<"DEFINES", FileId(fs.file), SymbolKey(fs.file, fs.definitions[i].name)>>
            \in DOMAIN g.edges
  /\ \A n \in DOMAIN g.attrs :
       (Len(n) = 2 /\ n[1] = fs.file) =>
         \E i \in 1..Len(fs.definitions) : n = SymbolKey(fs.file, fs.definitions[i].name)

failedFiles == {p \in Files : disk[p].present /\ ~parses(disk[p].fs)}

FileOperators == {"symbols", "callers", "dependencies", "dependents"}

\* the query named a file and the graph it was answered from has no such node
unknownFile ==
  /\ lastOp.kind \in FileOperators
  /\ lastOp.q.file # ""
  /\ ~hasNode(graph, FileId(lastOp.q.file))

reportsFileNotFound(response) ==
  /\ "fileNotFound" \in DOMAIN response
  /\ response.fileNotFound
  /\ Len(response.suggestions) <= MAX_SUGGESTIONS
  /\ \A i \in 1..Len(response.suggestions) :
       hasNode(graph, response.suggestions[i])

\* C16: a query operator given a file argument that names no node of the
\* graph responds with fileNotFound: true and at most MAX_SUGGESTIONS
\* suggested file nodes.
C16_UnknownFileIsReported ==
  unknownFile => reportsFileNotFound(lastOp.response)

\* what holds instead: dependencies and dependents report the unknown file
C16_DependenciesReportUnknownFile ==
  (unknownFile /\ lastOp.kind \in {"dependencies", "dependents"} /\ cache.hasGraph) =>
    reportsFileNotFound(lastOp.response)

invalidLevel == lastOp.kind = "orphans" /\ lastOp.q.level \notin {"file", "symbol"}

\* C17: orphans with a level other than 'file' or 'symbol' fails with the
\* usage error and returns no result, whatever the graph holds.
C17_InvalidLevelThrows ==
  invalidLevel => DOMAIN lastOp.response = {"throws"}

\* what holds instead: it throws once the index has a node
C17_InvalidLevelThrowsOnNonEmptyIndex ==
  (invalidLevel /\ Len(graph.order) > 0) => DOMAIN lastOp.response = {"throws"}

\* -------------------------------------------------- neighborhood behaviours
\* Trees of four files over two names, so that a file can import a file that
\* imports further files; one CodeIndex has indexed the tree and answers
\* neighborhood queries.
MaxHops == 2
MaxFiles == 3
NeighborFiles == {WalkOrder[i] : i \in 1..Len(WalkOrder)}

NeighborSymbols ==
  {<<<<>>, <<"f">>>>, <<<<"f">>, <<>>>>, <<<<"f">>, <<"g">>>>, <<<<"g">>, <<>>>>,
   <<<<"g">>, <<"f">>>>}

NeighborEntries(p) ==
  {[present |-> TRUE, mtime |-> 1,
    fs |-> [file |-> p, definitions |-> Definitions(x[1]), references |-> x[2]]] :
     x \in NeighborSymbols}

NeighborTrees ==
  {dk \in [NeighborFiles -> UNION {NeighborEntries(p) : p \in NeighborFiles}] :
     \A p \in NeighborFiles : dk[p].fs.file = p}

InitNeighborhood ==
  \E dk \in NeighborTrees : \E e \in {reindex(dk)} :
    /\ disk = dk
    /\ clock = 1
    /\ graph = e.graph
    /\ cache = e.cache
    /\ doc = e.doc
    /\ ranker = NewRanker
    /\ sync = [unseen |-> 0, strict |-> TRUE]
    /\ prev = EmptyGraph
    /\ inputs = parseFiles(dk, globFiles(dk))
    /\ lastOp = [kind |-> "indexed"]

NeighborhoodQuery(pr, file, hops, includeDependents, maxFiles, offset, limit, count) ==
  \E e \in {ensure(cache, graph, doc, disk)} :
    Ask([Paged(NoQuery, offset, limit, count) EXCEPT
           !.kind = "neighborhood", !.pr = pr, !.file = file, !.hops = hops,
           !.includeDependents = includeDependents, !.maxFiles = maxFiles], e,
        neighborhood(e.graph, e.cache.hasGraph, pr, file, hops, includeDependents, maxFiles,
                     offset, limit, count))

NeighborPages ==
  {[offset |-> <<>>, limit |-> <<>>, count |-> FALSE],
   [offset |-> <<>>, limit |-> <<>>, count |-> TRUE],
   [offset |-> <<1>>, limit |-> <<1>>, count |-> FALSE]}

NextNeighborhood ==
  /\ lastOp.kind = "indexed"
  /\ \E pr \in Scores(graph), file \in {"a", "e"}, hops \in 0..MaxHops,
        includeDependents \in BOOLEAN, maxFiles \in 1..MaxFiles, page \in NeighborPages :
       NeighborhoodQuery(pr, file, hops, includeDependents, maxFiles,
                         page.offset, page.limit, page.count)

SpecNeighborhood == InitNeighborhood /\ [][NextNeighborhood]_vars

\* a neighborhood query on a file of the graph, answered with its whole list
wholeNeighborhood ==
  /\ lastOp.kind = "neighborhood"
  /\ hasNode(graph, FileId(lastOp.q.file))
  /\ ~lastOp.q.count /\ lastOp.q.offset = <<>> /\ lastOp.q.limit = <<>>

imports(x, y) == <<"IMPORTS", FileId(x), FileId(y)>> \in DOMAIN graph.edges

directNeighbours ==
  {lastOp.q.file}
    \cup {y \in NeighborFiles : imports(lastOp.q.file, y)}
    \cup {y \in NeighborFiles : lastOp.q.includeDependents /\ imports(y, lastOp.q.file)}

\* the score the operator sorts a visited file by, 0 - 1 for a file not visited
scoreIn(scored, f) ==
  IF \E i \in 1..Len(scored) : scored[i][1].file = FileId(f)
    THEN scored[CHOOSE i \in 1..Len(scored) : scored[i][1].file = FileId(f)][2]
    ELSE 0 - 1000000

neighborhoodFiles(files) ==
  LET q == lastOp.q
      scored == fileScored(graph, rankedByScore(graph, q.pr), q.file, q.hops,
                           q.includeDependents)
      listed == {files[i] : i \in 1..Len(files)}
      visited == {f \in NeighborFiles : \E i \in 1..Len(scored) : scored[i][1].file = FileId(f)}
  IN /\ directNeighbours \subseteq listed
     /\ \A i \in 1..Len(files) : files[i] \notin directNeighbours => i - 1 < q.maxFiles
     /\ \A i, j \in 1..Len(files) : i < j => scoreIn(scored, files[i]) >= scoreIn(scored, files[j])
     /\ \A f \in listed : \A h \in visited \ (listed \cup directNeighbours) :
          scoreIn(scored, f) >= scoreIn(scored, h)
     /\ \A h \in visited \ listed : Len(files) >= q.maxFiles

\* C18: the file list of neighborhood holds the starting file, every file it
\* imports and, with includeDependents, every file that imports it, however
\* many they are; any other file is in the list only if the list held fewer
\* than maxFiles files when its turn came, in descending score order.
C18_NeighborhoodFiles ==
  wholeNeighborhood => neighborhoodFiles(lastOp.response.files)

\* what holds instead: the same with at least one hop asked for
C18_NeighborhoodFilesWithHops ==
  (wholeNeighborhood /\ lastOp.q.hops >= 1) => neighborhoodFiles(lastOp.response.files)

C18_DirectOutnumberMaxFiles ==
  /\ wholeNeighborhood /\ lastOp.q.hops >= 1
  /\ Cardinality(directNeighbours) > lastOp.q.maxFiles
  /\ directNeighbours \subseteq {lastOp.response.files[i] : i \in 1..Len(lastOp.response.files)}

C18_FurtherFilesCompete ==
  /\ wholeNeighborhood /\ lastOp.q.hops = 2 /\ lastOp.q.maxFiles = 3
  /\ Cardinality(directNeighbours) = 2
  /\ Len(lastOp.response.files) = 3
  /\ \E h \in NeighborFiles :
       /\ h \notin {lastOp.response.files[i] : i \in 1..Len(lastOp.response.files)}
       /\ imports(lastOp.response.files[2], h)

\* ----------------------------------------------------------- index.js, trace
\* What trace reads from a caller file is its text: the first line matching
\* the call pattern and the definition around it.  sites[file] says where
\* that line lies: inside the file's first definition ("def"), outside every
\* definition or nowhere ("module"), or the file cannot be read ("unreadable").
Sites == {"def", "module", "unreadable"}

traceNode(name, file, line) == [name |-> name, file |-> file, line |-> line, callers |-> <<>>]

\* node.callers.sort((a, b) => a.file.localeCompare(b.file))
sortByFile(nodes) ==
  items(sortByScore([i \in 1..Len(nodes) |-> <<nodes[i], 0 - fileIndex(nodes[i].file)>>]))

\* getFileDefs: the definitions parsed from the file on disk, [] on failure
getFileDefs(dk, filePath) ==
  IF filePath \in DOMAIN dk /\ dk[filePath].present /\ parses(dk[filePath].fs)
    THEN dk[filePath].fs.definitions ELSE <<>>

\* callerFiles of the symbol: the files of the REFERENCES sources, its own apart
callerFilesOfSymbol(g, symbolName, symbolFile) ==
  SelectSeq(callerFilesOf(g, <<>>, targetKeysOf(g, symbolName, symbolFile)),
            LAMBDA sf : sf # symbolFile)

\* buildNode with neither the depth test nor the visited test would not end;
\* here the visited test is left out
RECURSIVE buildNodeNoVisited(_, _, _, _, _, _, _, _, _)
RECURSIVE buildCallersNoVisited(_, _, _, _, _, _, _, _)
buildNodeNoVisited(g, dk, sites, depth, st, symbolName, symbolFile, symbolLine, currentDepth) ==
  LET nodeKey == SymbolKey(symbolFile, symbolName)
      node == traceNode(symbolName, symbolFile, symbolLine)
  IN IF currentDepth >= depth THEN [node |-> node, st |-> st]
     ELSE LET st1 == [visited |-> st.visited \cup {nodeKey},
                      expanded |-> Append(st.expanded, nodeKey)]
              r == buildCallersNoVisited(g, dk, sites, depth, st1,
                     callerFilesOfSymbol(g, symbolName, symbolFile), <<>>, currentDepth)
          IN [node |-> [node EXCEPT !.callers = sortByFile(r.callers)], st |-> r.st]

buildCallersNoVisited(g, dk, sites, depth, st, callerFiles, found, currentDepth) ==
  IF callerFiles = <<>> THEN [callers |-> found, st |-> st]
  ELSE LET callerFile == Head(callerFiles)
           defs == getFileDefs(dk, callerFile)
       IN IF sites[callerFile] = "unreadable" \/ ~dk[callerFile].present
            THEN buildCallersNoVisited(g, dk, sites, depth, st, Tail(callerFiles), found,
                                       currentDepth)
          ELSE IF sites[callerFile] = "def" /\ defs # <<>>
            THEN LET r == buildNodeNoVisited(g, dk, sites, depth, st, defs[1].name, callerFile,
                                             defs[1].lineStart, currentDepth + 1)
                 IN buildCallersNoVisited(g, dk, sites, depth, r.st, Tail(callerFiles),
                                          Append(found, r.node), currentDepth)
          ELSE buildCallersNoVisited(g, dk, sites, depth, st, Tail(callerFiles),
                                     Append(found, traceNode("<module>", callerFile, 0)),
                                     currentDepth)

\* buildNode: st holds the visited set and, in order, the keys whose callers
\* were collected
RECURSIVE buildNode(_, _, _, _, _, _, _, _, _)
RECURSIVE buildCallers(_, _, _, _, _, _, _, _)
buildNode(g, dk, sites, depth, st, symbolName, symbolFile, symbolLine, currentDepth) ==
  LET nodeKey == SymbolKey(symbolFile, symbolName)
      node == traceNode(symbolName, symbolFile, symbolLine)
  IN IF currentDepth >= depth THEN [node |-> node, st |-> st]
     ELSE IF nodeKey \in st.visited THEN [node |-> node, st |-> st]
     ELSE LET st1 == [visited |-> st.visited \cup {nodeKey},
                      expanded |-> Append(st.expanded, nodeKey)]
              r == buildCallers(g, dk, sites, depth, st1,
                                callerFilesOfSymbol(g, symbolName, symbolFile), <<>>,
                                currentDepth)
          IN [node |-> [node EXCEPT !.callers = sortByFile(r.callers)], st |-> r.st]

\* the loop over callerFiles: each awaited buildNode ends before the next starts
buildCallers(g, dk, sites, depth, st, callerFiles, found, currentDepth) ==
  IF callerFiles = <<>> THEN [callers |-> found, st |-> st]
  ELSE LET callerFile == Head(callerFiles)
           defs == getFileDefs(dk, callerFile)
       IN IF sites[callerFile] = "unreadable" \/ ~dk[callerFile].present
            THEN buildCallers(g, dk, sites, depth, st, Tail(callerFiles), found, currentDepth)
          ELSE IF sites[callerFile] = "def" /\ defs # <<>>
            THEN LET r == buildNode(g, dk, sites, depth, st, defs[1].name, callerFile,
                                    defs[1].lineStart, currentDepth + 1)
                 IN buildCallers(g, dk, sites, depth, r.st, Tail(callerFiles),
                                 Append(found, r.node), currentDepth)
          ELSE buildCallers(g, dk, sites, depth, st, Tail(callerFiles),
                            Append(found, traceNode("<module>", callerFile, 0)),
                            currentDepth)

\* trace: null, or the tree with the keys expanded on the way
trace(g, hasGraph, dk, pr, sites, symbol, file, depth) ==
  IF ~hasGraph THEN [null |-> TRUE]
  ELSE LET targetKeys == targetKeysOf(g, symbol, file)
           ranked == rankedByScore(g, pr)
           sorted == items(sortByScore([i \in 1..Len(targetKeys) |->
                             <<targetKeys[i], scoreOf(ranked, targetKeys[i])>>]))
       IN IF targetKeys = <<>> THEN [null |-> TRUE]
          ELSE LET rootAttrs == g.attrs[sorted[1]]
                   r == buildNode(g, dk, sites, depth, [visited |-> {}, expanded |-> <<>>],
                                  rootAttrs.name, rootAttrs.file, rootAttrs.lineStart, 0)
               IN [tree |-> r.node, expanded |-> r.st.expanded]

\* ---------------------------------------------------------- trace behaviours
\* Trees of three files over two names, in which callers can form a cycle
\* (a defines f and calls g, b defines g and calls f), indexed by one
\* CodeIndex; then trace runs.
MaxDepth == 4

TraceTrees ==
  {dk \in [Files -> UNION {NeighborEntries(p) : p \in Files}] :
     \A p \in Files : dk[p].fs.file = p}

InitTrace ==
  \E dk \in TraceTrees : \E e \in {reindex(dk)} :
    /\ disk = dk
    /\ clock = 1
    /\ graph = e.graph
    /\ cache = e.cache
    /\ doc = e.doc
    /\ ranker = NewRanker
    /\ sync = [unseen |-> 0, strict |-> TRUE]
    /\ prev = EmptyGraph
    /\ inputs = parseFiles(dk, globFiles(dk))
    /\ lastOp = [kind |-> "indexed"]

TraceQuery(pr, sites, symbol, file, depth) ==
  /\ lastOp.kind = "indexed"
  /\ \E e \in {ensure(cache, graph, doc, disk)} :
       /\ graph' = e.graph
       /\ prev' = graph
       /\ cache' = e.cache
       /\ doc' = e.doc
       /\ ranker' = invalidate(ranker, e.result)
       /\ lastOp' = [kind |-> "trace",
                     q |-> [pr |-> pr, sites |-> sites, symbol |-> symbol, file |-> file,
                            depth |-> depth],
                     response |-> trace(e.graph, e.cache.hasGraph, disk, pr, sites, symbol,
                                        file, depth)]
  /\ UNCHANGED <<inputs, disk, clock, sync>>

NextTrace ==
  /\ lastOp.kind = "indexed"
  /\ \E pr \in Scores(graph), sites \in [Files -> Sites], symbol \in {"f", "x"},
        file \in {"", "a"}, depth \in 0..MaxDepth :
       TraceQuery(pr, sites, symbol, file, depth)

SpecTrace == InitTrace /\ [][NextTrace]_vars

RECURSIVE heightOf(_)
heightOf(node) ==
  IF node.callers = <<>> THEN 0
  ELSE 1 + heightOf(node.callers[CHOOSE i \in 1..Len(node.callers) :
                      \A j \in 1..Len(node.callers) :
                        heightOf(node.callers[i]) >= heightOf(node.callers[j])])

\* the (file, name) pairs of the nodes that have callers listed under them
RECURSIVE withCallers(_)
withCallers(node) ==
  IF node.callers = <<>> THEN <<>>
  ELSE <<SymbolKey(node.file, node.name)>>
       \o IF Len(node.callers) = 1 THEN withCallers(node.callers[1])
          ELSE IF Len(node.callers) = 2
                 THEN withCallers(node.callers[1]) \o withCallers(node.callers[2])
          ELSE withCallers(node.callers[1]) \o withCallers(node.callers[2])
               \o withCallers(node.callers[3])

noRepeats(keys) == \A i, j \in 1..Len(keys) : keys[i] = keys[j] => i = j

traced == lastOp.kind = "trace" /\ "tree" \in DOMAIN lastOp.response

\* C19: trace returns for every graph and depth, cyclic callers included;
\* the tree is at most depth high, and the callers of each (file, name) pair
\* are collected at most once in a trace.
C19_TraceIsBounded ==
  /\ lastOp.kind = "trace" =>
       DOMAIN lastOp.response \in {{"null"}, {"tree", "expanded"}}
  /\ traced =>
       /\ heightOf(lastOp.response.tree) <= lastOp.q.depth
       /\ noRepeats(lastOp.response.expanded)
       /\ noRepeats(withCallers(lastOp.response.tree))
       /\ Len(lastOp.response.expanded) <= Cardinality(SymbolNodes(graph))

\* a cycle of callers traced deeper than it is long
C19_Witness ==
  /\ traced
  /\ lastOp.q.depth = MaxDepth
  /\ heightOf(lastOp.response.tree) = 2
  /\ Len(lastOp.response.expanded) = 2
  /\ Len(lastOp.response.tree.callers) = 1
  /\ Len(lastOp.response.tree.callers[1].callers) = 1
  /\ lastOp.response.tree.callers[1].callers[1].name = lastOp.response.tree.name
  /\ lastOp.response.tree.callers[1].callers[1].file = lastOp.response.tree.file

\* ----------------------------------------------------- suspension behaviours
\* trace as the steps its awaits cut it into, with another request of the
\* same CodeIndex running in between.  TraceBegin runs up to the first
\* readFile of a caller file; while it is suspended a file may be written
\* and another query's _ensureReady() may run ensure(), which updates the
\* graph object in place; TraceResume runs the rest.
SuspendSites == [Files -> {"def", "module"}]
SuspendDepths == {0, 2}

TraceBegin(pr, sites, symbol, file, depth) ==
  /\ lastOp.kind = "indexed"
  /\ \E e \in {ensure(cache, graph, doc, disk)} :
     \E q \in {[pr |-> pr, sites |-> sites, symbol |-> symbol, file |-> file,
                depth |-> depth]} :
       LET targetKeys == targetKeysOf(e.graph, symbol, file)
           ranked == rankedByScore(e.graph, pr)
           sorted == items(sortByScore([i \in 1..Len(targetKeys) |->
                             <<targetKeys[i], scoreOf(ranked, targetKeys[i])>>]))
           rootAttrs == e.graph.attrs[sorted[1]]
           callerFiles == callerFilesOfSymbol(e.graph, rootAttrs.name, rootAttrs.file)
       IN /\ graph' = e.graph
          /\ prev' = graph
          /\ cache' = e.cache
          /\ doc' = e.doc
          /\ ranker' = invalidate(ranker, e.result)
          /\ lastOp' =
               IF ~e.cache.hasGraph \/ targetKeys = <<>> \/ depth = 0 \/ callerFiles = <<>>
                 THEN [kind |-> "trace", q |-> q, suspended |-> FALSE, atStart |-> e.graph,
                       response |-> trace(e.graph, e.cache.hasGraph, disk, pr, sites, symbol,
                                          file, depth)]
                 ELSE [kind |-> "suspended", q |-> q, atStart |-> e.graph,
                       node |-> traceNode(rootAttrs.name, rootAttrs.file, rootAttrs.lineStart),
                       st |-> [visited |-> {SymbolKey(rootAttrs.file, rootAttrs.name)},
                               expanded |-> <<SymbolKey(rootAttrs.file, rootAttrs.name)>>],
                       callerFiles |-> callerFiles, written |-> FALSE]
  /\ UNCHANGED <<inputs, disk, clock, sync>>

WriteWhileSuspended(p, entry) ==
  /\ lastOp.kind = "suspended"
  /\ ~lastOp.written
  /\ entry # disk[p]
  /\ disk' = [disk EXCEPT ![p] = [entry EXCEPT !.mtime = clock + 1]]
  /\ clock' = clock + 1
  /\ inputs' = parseFiles(disk', globFiles(disk'))
  /\ lastOp' = [lastOp EXCEPT !.written = TRUE]
  /\ UNCHANGED <<graph, prev, doc, cache, ranker, sync>>

\* the _ensureReady() of another request on the same CodeIndex
EnsureWhileSuspended ==
  /\ lastOp.kind = "suspended"
  /\ lastOp.written
  /\ \E e \in {ensure(cache, graph, doc, disk)} :
       /\ e.graph # graph
       /\ graph' = e.graph
       /\ prev' = graph
       /\ cache' = e.cache
       /\ doc' = e.doc
       /\ ranker' = invalidate(ranker, e.result)
  /\ UNCHANGED <<inputs, disk, clock, sync, lastOp>>

TraceResume ==
  /\ lastOp.kind = "suspended"
  /\ \E r \in {buildCallers(graph, disk, lastOp.q.sites, lastOp.q.depth, lastOp.st,
                            lastOp.callerFiles, <<>>, 0)} :
       lastOp' = [kind |-> "trace", q |-> lastOp.q, suspended |-> TRUE,
                  atStart |-> lastOp.atStart,
                  response |-> [tree |-> [lastOp.node EXCEPT !.callers = sortByFile(r.callers)],
                                expanded |-> r.st.expanded]]
  /\ UNCHANGED <<graph, prev, inputs, disk, clock, doc, cache, ranker, sync>>

NextSuspend ==
  \/ /\ lastOp.kind = "indexed"
     /\ \E pr \in Scores(graph), sites \in SuspendSites, depth \in SuspendDepths :
          TraceBegin(pr, sites, "f", "", depth)
  \/ \E p \in Files : \E entry \in NeighborEntries(p) : WriteWhileSuspended(p, entry)
  \/ EnsureWhileSuspended
  \/ TraceResume

SpecSuspend == InitTrace /\ [][NextSuspend]_vars

\* what the query answers when every graph read sees the graph it started on
answerAtStart ==
  trace(lastOp.atStart, TRUE, disk, lastOp.q.pr, lastOp.q.sites, lastOp.q.symbol,
        lastOp.q.file, lastOp.q.depth)

\* C20: a query that suspended on file I/O has read the graph only before
\* that point, so its answer is the one the graph it started on gives,
\* whatever was done to the graph while it was suspended.
C20_NoGraphReadAfterSuspension ==
  (lastOp.kind = "trace" /\ lastOp.suspended) => lastOp.response = answerAtStart

\* what holds instead: the answer is the one of the start graph when the
\* graph was not updated in between
C20_UnaffectedWhenGraphUnchanged ==
  (lastOp.kind = "trace" /\ lastOp.suspended /\ graph = lastOp.atStart) =>
    lastOp.response = answerAtStart

\* ---------------------------------------------------- graph.js, the ranker
\* The graph objects of a call are held in a heap, a sequence of graph
\* values; a reference is an index into it.  Mutating a graph through one
\* reference is seen through every reference to the same object.
FocusNode == <<"__focus__">>

VirtualAttrs ==
  [type |-> "virtual", name |-> "", file |-> "", lineStart |-> 0, symbolCount |-> 0]

\* the edge g.addEdge('__focus__', f, { weight: 10.0 }): it has a weight and
\* no type; every other edge has a type and no weight
FocusEdge == "weight"
FOCUS_WEIGHT == 10

\* pagerank's options, in fixed point: scores in millionths, alpha in
\* hundredths, the tolerance 1e-6 in millionths
SCALE == 1000000
ALPHA == 85
MAX_ITERATIONS == 100
TOLERANCE == 1

\* getEdgeWeight: 'weight': the attribute when it is a number, 1 otherwise
getEdgeWeight(e) == IF e[1] = FocusEdge THEN FOCUS_WEIGHT ELSE 1

RECURSIVE sum(_)
sum(fn) ==
  IF DOMAIN fn = {} THEN 0
  ELSE LET x == CHOOSE x \in DOMAIN fn : TRUE
       IN fn[x] + sum([y \in DOMAIN fn \ {x} |-> fn[y]])

abs(i) == IF i < 0 THEN 0 - i ELSE i

\* the weighted out-degree of each node
outDegrees(g) ==
  [m \in DOMAIN g.attrs |->
     sum([e \in {e \in DOMAIN g.edges : e[2] = m} |-> getEdgeWeight(e) * g.edges[e]])]

\* one power iteration: every edge passes on alpha times its source's score
\* by its normalised weight, the score of the dangling nodes is spread evenly
pagerankStep(g, d, x) ==
  LET N == Len(g.order)
      dangleSum == (ALPHA * sum([m \in {m \in DOMAIN x : d[m] = 0} |-> x[m]])) \div 100
  IN [n \in DOMAIN x |->
        sum([e \in {e \in DOMAIN g.edges : e[3] = n} |->
               (((ALPHA * x[e[2]]) \div 100) * getEdgeWeight(e) * g.edges[e]) \div d[e[2]]])
        + dangleSum \div N + ((100 - ALPHA) * SCALE) \div (100 * N)]

RECURSIVE powerIterations(_, _, _, _)
powerIterations(g, d, x, iteration) ==
  IF iteration >= MAX_ITERATIONS THEN [throws |-> "failed to converge"]
  ELSE LET y == pagerankStep(g, d, x)
       IN IF sum([n \in DOMAIN x |-> abs(y[n] - x[n])]) < Len(g.order) * TOLERANCE
            THEN [scores |-> y]
            ELSE powerIterations(g, d, y, iteration + 1)

\* pagerank(g, {alpha: 0.85, maxIterations: 100, tolerance: 1e-6,
\* getEdgeWeight: 'weight'}): node -> score
pagerank(g) ==
  powerIterations(g, outDegrees(g), [n \in DOMAIN g.attrs |-> SCALE \div Len(g.order)], 0)

\* The paths of the model are single tokens; each stands for a path under a
\* directory: TestFiles lie under tests/, the other files under src/.
dirOf(filePath) == IF filePath \in TestFiles THEN "tests/" ELSE "src/"

\* weights in tenths
DEFAULT_PATH_TIERS ==
  <<[pattern |-> "temp_qa/", weight |-> 1], [pattern |-> "qa/temp_", weight |-> 1],
    [pattern |-> "qa/", weight |-> 2], [pattern |-> "tests/", weight |-> 2],
    [pattern |-> "test/", weight |-> 2], [pattern |-> "scripts/", weight |-> 3],
    [pattern |-> "deploy/", weight |-> 3]>>

\* filePath.startsWith(pattern) || filePath.includes('/' + pattern); the
\* first match wins
RECURSIVE getPathWeight(_, _)
getPathWeight(filePath, pathTiers) ==
  IF pathTiers = <<>> THEN 10
  ELSE IF Head(pathTiers).pattern = dirOf(filePath) THEN Head(pathTiers).weight
  ELSE getPathWeight(filePath, Tail(pathTiers))

\* the graph itself taken for the copy
graphAlias(heap, ref) == [heap |-> heap, ref |-> ref]

\* graph.copy(): a new graph object with the same nodes and edges
graphCopy(heap, ref) == [heap |-> Append(heap, heap[ref]), ref |-> Len(heap) + 1]

RECURSIVE addFocusEdges(_, _)
addFocusEdges(g, focusFiles) ==
  IF focusFiles = <<>> THEN g
  ELSE addFocusEdges(IF hasNode(g, FileId(Head(focusFiles)))
                       THEN addEdge(g, FocusEdge, FocusNode, FileId(Head(focusFiles)))
                       ELSE g,
                     Tail(focusFiles))

\* every score kept
allScores(copy, g) == copy.order

\* delete scores['__focus__'] and the filter: the keys of the scores that
\* are symbol nodes of the graph, in the order of Object.entries
symbolScores(copy, g) ==
  SelectSeq(copy.order, LAMBDA key : /\ key # FocusNode
                                     /\ hasNode(g, key)
                                     /\ g.attrs[key].type = "symbol")

\* rankedSymbols(graph, focusFiles, pathTiers) on the heap, ref being the
\* graph it is given: the heap it leaves and the array it returns,
\* <<symbolKey, score>> pairs
rankedSymbolsOn(heap, ref, focusFiles, pathTiers) ==
  IF Len(heap[ref].order) = 0 THEN [heap |-> heap, value |-> <<>>]
  ELSE LET c == graphCopy(heap, ref)
           h == IF focusFiles # <<>>
                  THEN [c.heap EXCEPT ![c.ref] =
                          addFocusEdges(mergeNode(@, FocusNode, VirtualAttrs), focusFiles)]
                  ELSE c.heap
           scores == pagerank(h[c.ref]).scores
           kept == symbolScores(h[c.ref], h[ref])
       IN [heap |-> h,
           value |-> sortByScore([i \in 1..Len(kept) |->
                       <<kept[i],
                         IF hasNode(h[ref], kept[i])
                           THEN (scores[kept[i]]
                                   * getPathWeight(h[ref].attrs[kept[i]].file, pathTiers))
                                  \div 10
                           ELSE scores[kept[i]]>>])]

\* _loadConfig: what the cache keeps of the project config file, the ignore
\* patterns appended to its own; a missing file leaves the defaults
loadConfig(ignorePatterns, config) ==
  IF config.present THEN [ignorePatterns |-> ignorePatterns \o config.fs.ignore]
  ELSE [ignorePatterns |-> ignorePatterns]

\* _getRanked(focusFiles) when no ranking is cached: rankedSymbols(graph,
\* focusFiles), its third parameter left to its default
getRankedOn(heap, ref, hasGraph, focusFiles) ==
  IF ~hasGraph \/ Len(heap[ref].order) = 0 THEN [heap |-> heap, value |-> <<>>]
  ELSE rankedSymbolsOn(heap, ref, focusFiles, DEFAULT_PATH_TIERS)

\* --------------------------------------------------- ranker behaviours
\* A tree that one CodeIndex has indexed, with or without a project config
\* file; then rankedSymbols is called on the graph, or a query asks
\* _getRanked for a ranking.
CONFIG_PATH == ".code-index/config.json"

ConfigTiers == {<<>>, <<[pattern |-> "src/", weight |-> 5]>>}

ConfigEntries ==
  {[present |-> FALSE, mtime |-> 0,
    fs |-> [file |-> CONFIG_PATH, ignore |-> <<>>, pathTiers |-> <<>>]]}
    \cup {[present |-> TRUE, mtime |-> 1,
           fs |-> [file |-> CONFIG_PATH, ignore |-> <<>>, pathTiers |-> t]] : t \in ConfigTiers}

FocusLists == {<<>>, <<"a">>, <<"c">>, <<"a", "c">>, <<"d">>}

TierTables == {DEFAULT_PATH_TIERS} \cup {DEFAULT_PATH_TIERS \o t : t \in ConfigTiers}

InitRank ==
  \E dk \in QueryTrees, config \in ConfigEntries : \E e \in {reindex(dk)} :
    /\ disk = [p \in Files \cup {CONFIG_PATH} |-> IF p = CONFIG_PATH THEN config ELSE dk[p]]
    /\ clock = 1
    /\ graph = e.graph
    /\ cache = e.cache
    /\ doc = e.doc
    /\ ranker = NewRanker
    /\ sync = [unseen |-> 0, strict |-> TRUE]
    /\ prev = EmptyGraph
    /\ inputs = parseFiles(dk, globFiles(dk))
    /\ lastOp = [kind |-> "indexed"]

\* rankedSymbols(graph, focusFiles, pathTiers) on the graph of the cache
RankedSymbols(focusFiles, pathTiers) ==
  /\ lastOp.kind = "indexed"
  /\ \E r \in {rankedSymbolsOn(<<graph>>, 1, focusFiles, pathTiers)} :
       /\ graph' = r.heap[1]
       /\ lastOp' = [kind |-> "ranked", focusFiles |-> focusFiles, pathTiers |-> pathTiers,
                     value |-> r.value]
  /\ prev' = graph
  /\ UNCHANGED <<inputs, disk, clock, doc, cache, ranker, sync>>

\* a query's ranking: _ensureReady(), then _getRanked(focusFiles)
GetRanked(focusFiles) ==
  /\ lastOp.kind = "indexed"
  /\ \E e \in {ensure(cache, graph, doc, disk)} :
     \E r \in {getRankedOn(<<e.graph>>, 1, e.cache.hasGraph, focusFiles)} :
       /\ graph' = r.heap[1]
       /\ cache' = e.cache
       /\ doc' = e.doc
       /\ ranker' = IF focusFiles = <<>>
                      THEN getRanked(invalidate(ranker, e.result), e.graph,
                                     e.cache.hasGraph).ranker
                      ELSE invalidate(ranker, e.result)
       /\ lastOp' = [kind |-> "getRanked", focusFiles |-> focusFiles, value |-> r.value,
                     config |-> loadConfig(<<>>, disk[CONFIG_PATH])]
  /\ prev' = graph
  /\ UNCHANGED <<inputs, disk, clock, sync>>

NextRank ==
  \/ \E focusFiles \in FocusLists, pathTiers \in TierTables :
       RankedSymbols(focusFiles, pathTiers)
  \/ \E focusFiles \in FocusLists : GetRanked(focusFiles)

SpecRank == InitRank /\ [][NextRank]_vars

\* C21: rankedSymbols leaves the graph it is given as it found it: the same
\* nodes in the same order, the same attributes and edges, no __focus__ node.
C21_RankingLeavesGraph ==
  lastOp.kind = "ranked" =>
    /\ graph = prev
    /\ ~hasNode(graph, FocusNode)
    /\ \A e \in DOMAIN graph.edges : e[1] # FocusEdge

C21_Witness ==
  /\ lastOp.kind = "ranked"
  /\ lastOp.focusFiles = <<"a", "c">>
  /\ hasNode(graph, FileId("a")) /\ hasNode(graph, FileId("c"))
  /\ lastOp.value # <<>>
  /\ \E e \in Edges(graph, "REFERENCES") : TRUE

\* the keys of a ranking
rankedKeys(ranked) == {ranked[i][1] : i \in 1..Len(ranked)}

oneIsolatedFile(g) == Cardinality({n \in DOMAIN g.attrs : g.attrs[n].type = "file"}) = 1

\* C22: the ranking of an empty graph is empty; otherwise it has exactly one
\* entry per symbol node and none for a file node or for __focus__; for a
\* graph of one file every entry has a positive score.
C22_RankingListsSymbols ==
  lastOp.kind = "ranked" =>
    /\ Len(prev.order) = 0 => lastOp.value = <<>>
    /\ rankedKeys(lastOp.value) = SymbolNodes(prev)
    /\ Len(lastOp.value) = Cardinality(SymbolNodes(prev))
    /\ FocusNode \notin rankedKeys(lastOp.value)
    /\ oneIsolatedFile(prev) => \A i \in 1..Len(lastOp.value) : lastOp.value[i][2] > 0

C22_Witness ==
  /\ lastOp.kind = "ranked"
  /\ lastOp.focusFiles = <<"c">>
  /\ oneIsolatedFile(prev) /\ hasNode(prev, FileId("c"))
  /\ Len(lastOp.value) = 1

C22_WitnessEmpty ==
  /\ lastOp.kind = "ranked"
  /\ Len(prev.order) = 0
  /\ lastOp.value = <<>>

\* the ranking of the same graph with no focus
unfocused == rankedSymbolsOn(<<prev>>, 1, <<>>, lastOp.pathTiers).value

focusedOn(c) ==
  /\ lastOp.kind = "ranked"
  /\ lastOp.focusFiles = <<c>>
  /\ hasNode(prev, FileId(c))

\* C23: with focusFiles = [c], c a file of the graph, every symbol defined
\* in c scores strictly higher than in the unfocused ranking of the graph.
C23_FocusRaisesScores ==
  \A c \in Files :
    focusedOn(c) =>
      \A s \in SymbolNodes(prev) :
        prev.attrs[s].file = c => scoreOf(lastOp.value, s) > scoreOf(unfocused, s)

\* the path-tier table with the project's entries added
configuredTiers == DEFAULT_PATH_TIERS \o disk[CONFIG_PATH].fs.pathTiers

\* C24: the weight that multiplies a symbol's score in a query's ranking is
\* taken from the path tiers of the project config as well as the defaults.
C24_ConfiguredTiersAreUsed ==
  lastOp.kind = "getRanked" =>
    lastOp.value = rankedSymbolsOn(<<prev>>, 1, lastOp.focusFiles, configuredTiers).value

\* what the code does: the defaults alone
C24_DefaultTiersAreUsed ==
  lastOp.kind = "getRanked" =>
    lastOp.value = rankedSymbolsOn(<<prev>>, 1, lastOp.focusFiles, DEFAULT_PATH_TIERS).value

\* ----------------------------------------------------- batch behaviours
\* buildGraph on an array of up to two records, then updateGraphFiles with
\* two added records: the records of a batch parsed together.  A record
\* defines f at most once and references it at most once, or defines it
\* MaxTargets times (one name declared many times in one file) and leaves
\* one symbol node.
Overloaded(file) ==
  [file |-> file, definitions |-> Definitions([i \in 1..MaxTargets |-> "f"]),
   references |-> <<>>]

BatchSymbols ==
  UNION {QuerySymbolsOf(file) : file \in Files} \cup {Overloaded("c")}

MaxBatch == 2

Batches == [1..MaxBatch -> BatchSymbols]

NextBatch ==
  \/ \E X \in SeqsUpTo(BatchSymbols, MaxBatch) : Build(X)
  \/ \E R \in FileLists, N \in Batches : Update(R, N)

SpecBatch == Init /\ [][NextBatch]_vars

\* the arrays with the records of X in another order
permutations(X) ==
  {[i \in 1..Len(X) |-> X[pi[i]]] :
     pi \in {f \in [1..Len(X) -> 1..Len(X)] : \A i, j \in 1..Len(X) : f[i] = f[j] => i = j}}

\* C25: the graph does not depend on the order of the records of the array
\* given to buildGraph or of the added array given to updateGraphFiles (one
\* record per file): every permutation yields the same nodes, attributes
\* and typed edges.
C25_OrderIrrelevant ==
  /\ (lastOp.kind = "build" /\ distinctFiles(lastOp.added)) =>
       \A Y \in permutations(lastOp.added) : SameGraph(graph, buildGraph(Y))
  /\ (lastOp.kind = "update" /\ distinctFiles(lastOp.added)) =>
       \A Y \in permutations(lastOp.added) :
         SameGraph(graph, updateGraphFiles(prev, lastOp.removed, Y))

\* the part that holds: the order of the array given to buildGraph
C25_BuildOrderIrrelevant ==
  (lastOp.kind = "build" /\ distinctFiles(lastOp.added)) =>
    \A Y \in permutations(lastOp.added) : SameGraph(graph, buildGraph(Y))

bearers(g, n) == {s \in SymbolNodes(g) : g.attrs[s].name = n}

references(fs, n) == \E i \in 1..Len(fs.references) : fs.references[i] = n

\* every reference to n of the merged records is wired to the one node
wiredToTheOne(n) ==
  Cardinality(bearers(graph, n)) = 1 =>
    \A i \in 1..Len(lastOp.added) :
      references(lastOp.added[i], n) =>
        \A s \in bearers(graph, n) :
          <<"REFERENCES", FileId(lastOp.added[i].file), s>> \in DOMAIN graph.edges

\* C26: when exactly one symbol node bears the name n after a build or an
\* update, every reference to n in a file merged by that operation has a
\* REFERENCES edge from the file to that node (one record per file).
C26_SoleBearerIsWired ==
  (lastOp.kind \in {"build", "update"} /\ distinctFiles(lastOp.added))
    => \A n \in Names : wiredToTheOne(n)

\* the same for builds of records that declare a name once
C26_SoleBearerIsWiredByBuild ==
  (/\ lastOp.kind = "build" /\ distinctFiles(lastOp.added)
   /\ \A i \in 1..Len(lastOp.added) : lastOp.added[i] # Overloaded("c"))
    => \A n \in Names : wiredToTheOne(n)

\* the same for updates of records that declare a name once
C26_SoleBearerIsWiredByUpdate ==
  (/\ lastOp.kind = "update" /\ distinctFiles(lastOp.added)
   /\ \A i \in 1..Len(lastOp.added) : lastOp.added[i] # Overloaded("c"))
    => \A n \in Names : wiredToTheOne(n)

\* ------------------------------------------------ neighborhood scores
\* the files within k outgoing IMPORTS steps of the starting file
RECURSIVE reached(_)
reached(k) ==
  IF k <= 0 THEN {lastOp.q.file}
  ELSE reached(k - 1) \cup {y \in NeighborFiles : \E x \in reached(k - 1) : imports(x, y)}

\* the length of the shortest outgoing-IMPORTS path to a file within hops
shortestPath(f) ==
  CHOOSE k \in 0..lastOp.q.hops : f \in reached(k) /\ \A j \in 0..(k - 1) : f \notin reached(j)

visitedOf(scored) ==
  {f \in NeighborFiles : \E i \in 1..Len(scored) : scored[i][1].file = FileId(f)}

\* (isDirect ? 1e6 : 0) + filePR * 1e4 - hopDist with hopDist(f) given
scoredAs(scored, hopDist(_)) ==
  LET q == lastOp.q
      ranked == rankedByScore(graph, q.pr)
      dependentsOf == {y \in NeighborFiles : q.includeDependents /\ imports(y, q.file)}
  IN /\ visitedOf(scored) = reached(q.hops) \cup dependentsOf
     /\ \A f \in visitedOf(scored) :
          scoreIn(scored, f) =
            (IF f \in directNeighbours THEN 1000000 ELSE 0)
              + filePR(graph, ranked, FileId(f), outTargets(graph, "DEFINES", FileId(f))) * 100
              - hopDist(f)

neighborhoodScores ==
  fileScored(graph, rankedByScore(graph, lastOp.q.pr), lastOp.q.file, lastOp.q.hops,
             lastOp.q.includeDependents)

\* C27: neighborhood scores every visited file as (isDirect ? 1e6 : 0) +
\* filePR * 1e4 - hopDist, hopDist being 0 for the starting file, the length
\* of the shortest outgoing-IMPORTS path (at most hops) for a file reached
\* forward, and 1 for a direct dependent not reached forward.
C27_ScoreUsesHopDepth ==
  (lastOp.kind = "neighborhood" /\ hasNode(graph, FileId(lastOp.q.file))) =>
    scoredAs(neighborhoodScores,
             LAMBDA f : IF f \in reached(lastOp.q.hops) THEN shortestPath(f) ELSE 1)

\* what the code does: the starting file's hopDist is 99
C27_ScoreUsesHopDepthOr99 ==
  (lastOp.kind = "neighborhood" /\ hasNode(graph, FileId(lastOp.q.file))) =>
    scoredAs(neighborhoodScores,
             LAMBDA f : IF f = lastOp.q.file THEN 99
                        ELSE IF f \in reached(lastOp.q.hops) THEN shortestPath(f) ELSE 1)

\* the starting file listed after a file it imports that has the same filePR
C27_StartFileListedFirstOnTies ==
  (wholeNeighborhood /\ lastOp.q.hops >= 1) =>
    \A y \in NeighborFiles :
      (/\ imports(lastOp.q.file, y)
       /\ scoreIn(neighborhoodScores, y) - scoreIn(neighborhoodScores, lastOp.q.file) = 98)
        => \E i, j \in 1..Len(lastOp.response.files) :
             i < j /\ lastOp.response.files[i] = lastOp.q.file /\ lastOp.response.files[j] = y

\* ------------------------------------------------- recorded and indexed
\* C30: after a completed ensure() every path with an entry in mtimes that
\* exists on disk has a file node in the graph: no file is recorded as up to
\* date without being indexed.
C30_RecordedFilesAreIndexed ==
  isQuery =>
    \A p \in DOMAIN cache.mtimes : disk[p].present => hasNode(graph, FileId(p))

\* the same for the files that can be read and parsed
C30_RecordedParsedFilesAreIndexed ==
  isQuery =>
    \A p \in DOMAIN cache.mtimes :
      (disk[p].present /\ parses(disk[p].fs)) => hasNode(graph, FileId(p))

\* ---------------------------------------------------- overlap behaviours
\* Requests on one CodeIndex that overlap: the server's handlers are async
\* functions on the shared currentIndex, and a handler runs until its next
\* await, where another request's handler may run.  A request is a query:
\* _ensureReady(), which awaits cache.ensure(), and then its read of the
\* unfocused ranking.  ensure() is cut at its awaits: the config and cache
\* document reads, the walk of the tree, the import of graphology, the file
\* reads of _parseFiles, and the mkdir and writeFile of saveGraph.  What
\* follows the last await of ensure() (its return, the rest of _ensureReady
\* and the query's reads) runs without a break.
MaxRequests == 3
Calls == {1, 2}

InitOverlap ==
  \E dk \in QueryTrees :
    /\ disk = dk
    /\ clock = 1
    /\ graph = EmptyGraph
    /\ prev = EmptyGraph
    /\ cache = NewCache
    /\ doc = NoDoc
    /\ ranker = NewRanker
    /\ inputs = parseFiles(dk, globFiles(dk))
    /\ lastOp = [kind |-> "overlap"]
    /\ sync = [calls |-> [i \in Calls |-> [pc |-> "idle"]], started |-> 0]

at(i, pc) == sync.calls[i].pc = pc

goto(i, call) == sync' = [sync EXCEPT !.calls[i] = call]

\* ensure() returns result to _ensureReady, which invalidates the rankings
\* (index.js 178-181); the query then reads _getRanked() and the graph g
returns(i, result, g, c) ==
  \E r \in {getRanked(invalidate(ranker, result), g, c.hasGraph)} :
    /\ ranker' = r.ranker
    /\ goto(i, [pc |-> "done", result |-> result, graph |-> g, mtimes |-> c.mtimes,
                ranked |-> r.value, tree |-> globFiles(disk)])

\* a request arrives: ensure() up to its first await
EnsureBegin(i) ==
  /\ at(i, "idle") \/ at(i, "done")
  /\ sync.started < MaxRequests
  /\ sync' = [sync EXCEPT !.calls[i] = [pc |-> IF cache.initialized THEN "scan" ELSE "load"],
                          !.started = @ + 1]
  /\ UNCHANGED <<graph, prev, inputs, lastOp, disk, clock, doc, cache, ranker>>

\* cache.js 143-150: after _loadConfig and loadGraph
EnsureLoad(i) ==
  /\ at(i, "load")
  /\ \E cached \in {loadGraph(doc)} :
       /\ graph' = IF cached # <<>> THEN cached[1].graph ELSE graph
       /\ cache' = IF cached # <<>>
                     THEN [hasGraph |-> TRUE, mtimes |-> cached[1].mtimes, initialized |-> TRUE]
                     ELSE [cache EXCEPT !.initialized = TRUE]
  /\ prev' = graph
  /\ goto(i, [pc |-> "scan"])
  /\ UNCHANGED <<inputs, lastOp, disk, clock, doc, ranker>>

\* cache.js 153-166: _getChangedFiles, which records the mtime of every
\* changed file, and the branch on what it found
EnsureScan(i) ==
  /\ at(i, "scan")
  /\ \E r \in {getChangedFiles(cache.mtimes, disk)} :
     \E c \in {[cache EXCEPT !.mtimes = r.mtimes]} :
       /\ cache' = c
       /\ IF r.changed = <<>> /\ r.deleted = <<>>
            THEN IF cache.hasGraph
                   THEN returns(i, [changed |-> 0, deleted |-> 0,
                                    totalScanned |-> r.totalScanned], graph, c)
                   ELSE /\ goto(i, [pc |-> "import", totalScanned |-> r.totalScanned])
                        /\ ranker' = ranker
            ELSE /\ goto(i, [pc |-> "parse", changed |-> r.changed, deleted |-> r.deleted,
                             totalScanned |-> r.totalScanned])
                 /\ ranker' = ranker
  /\ UNCHANGED <<graph, prev, inputs, lastOp, disk, clock, doc>>

\* cache.js 156-162: after the import of graphology
EnsureImport(i) ==
  /\ at(i, "import")
  /\ graph' = EmptyGraph
  /\ prev' = graph
  /\ cache' = [cache EXCEPT !.hasGraph = TRUE]
  /\ returns(i, [changed |-> 0, deleted |-> 0, totalScanned |-> sync.calls[i].totalScanned],
             EmptyGraph, cache')
  /\ UNCHANGED <<inputs, lastOp, disk, clock, doc>>

\* cache.js 170-182: after _parseFiles, the build or the update, up to the
\* first await of saveGraph
EnsureParse(i) ==
  /\ at(i, "parse")
  /\ \E newSymbols \in {parseFiles(disk, sync.calls[i].changed)} :
       graph' = IF ~cache.hasGraph THEN buildGraph(newSymbols)
                ELSE updateGraphFiles(graph, sync.calls[i].deleted \o sync.calls[i].changed,
                                      newSymbols)
  /\ prev' = graph
  /\ cache' = [cache EXCEPT !.hasGraph = TRUE]
  /\ goto(i, [sync.calls[i] EXCEPT !.pc = "write"])
  /\ UNCHANGED <<inputs, lastOp, disk, clock, doc, ranker>>

\* graph.js 274-282: after mkdir, the document is serialised and written
EnsureWrite(i) ==
  /\ at(i, "write")
  /\ doc' = saveGraph(graph, cache.mtimes)
  /\ goto(i, [sync.calls[i] EXCEPT !.pc = "return"])
  /\ UNCHANGED <<graph, prev, inputs, lastOp, disk, clock, cache, ranker>>

\* cache.js 191: after writeFile
EnsureReturn(i) ==
  /\ at(i, "return")
  /\ returns(i, [changed |-> Len(sync.calls[i].changed), deleted |-> Len(sync.calls[i].deleted),
                 totalScanned |-> sync.calls[i].totalScanned], graph, cache)
  /\ UNCHANGED <<graph, prev, inputs, lastOp, disk, clock, doc, cache>>

\* the tree changes between requests
WriteBetween(p, entry) ==
  /\ \A i \in Calls : at(i, "idle") \/ at(i, "done")
  /\ clock < MaxWrites
  /\ entry # disk[p]
  /\ disk' = [disk EXCEPT ![p] = IF entry.present THEN [entry EXCEPT !.mtime = clock + 1]
                                  ELSE entry]
  /\ clock' = clock + 1
  /\ inputs' = parseFiles(disk', globFiles(disk'))
  /\ UNCHANGED <<graph, prev, lastOp, doc, cache, ranker, sync>>

NextOverlap ==
  \/ \E i \in Calls : EnsureBegin(i)
  \/ \E i \in Calls : EnsureLoad(i)
  \/ \E i \in Calls : EnsureScan(i)
  \/ \E i \in Calls : EnsureImport(i)
  \/ \E i \in Calls : EnsureParse(i)
  \/ \E i \in Calls : EnsureWrite(i)
  \/ \E i \in Calls : EnsureReturn(i)
  \/ \E p \in Files : \E entry \in QueryEntries(p) : WriteBetween(p, entry)

SpecOverlap == InitOverlap /\ [][NextOverlap]_vars

\* requests one at a time: a request begins when no other is in flight
NextInTurn ==
  \/ /\ \A j \in Calls : at(j, "idle") \/ at(j, "done")
     /\ \E i \in Calls : EnsureBegin(i)
  \/ \E i \in Calls : EnsureLoad(i)
  \/ \E i \in Calls : EnsureScan(i)
  \/ \E i \in Calls : EnsureImport(i)
  \/ \E i \in Calls : EnsureParse(i)
  \/ \E i \in Calls : EnsureWrite(i)
  \/ \E i \in Calls : EnsureReturn(i)
  \/ \E p \in Files : \E entry \in QueryEntries(p) : WriteBetween(p, entry)

SpecInTurn == InitOverlap /\ [][NextInTurn]_vars

\* C28: with overlapping ensure() calls, an ensure() returns changed = 0 and
\* deleted = 0 only when the graph holds every file whose mtime is recorded;
\* on a cold start no caller is handed an empty graph while the tree holds
\* files.
C28_UpToDateMeansIndexed ==
  \A i \in Calls :
    (at(i, "done") /\ sync.calls[i].result.changed = 0 /\ sync.calls[i].result.deleted = 0)
      => /\ \A p \in DOMAIN sync.calls[i].mtimes : hasNode(sync.calls[i].graph, FileId(p))
         /\ Len(sync.calls[i].graph.order) = 0 => sync.calls[i].tree = <<>>

\* a request that found every recorded file in the graph
upToDate(i) ==
  /\ at(i, "done")
  /\ \A p \in DOMAIN sync.calls[i].mtimes : hasNode(sync.calls[i].graph, FileId(p))

\* C29: a query never reads a cached unfocused ranking together with a graph
\* other than the one the ranking was computed from.
C29_RankingOfTheGraphRead ==
  \A i \in Calls :
    at(i, "done") => sync.calls[i].ranked = rankedSymbols(sync.calls[i].graph, <<>>)

\* the same for the requests that were handed a graph with every recorded
\* file in it
C29_RankingOfTheGraphReadWhenIndexed ==
  \A i \in Calls :
    upToDate(i) => sync.calls[i].ranked = rankedSymbols(sync.calls[i].graph, <<>>)

====
